---- MODULE Spec2Model ----
(***************************************************************************)
(* Model of the FGDC -> Zenodo metadata crosswalk of                       *)
(* scripts/fgdc_to_zenodo.py with the diagnostics sink of                  *)
(* scripts/logger.py.                                                      *)
(*                                                                         *)
(* Text is modelled as a sequence of one-character strings, so that        *)
(* slicing, searching, int() and formatting are computed as Python         *)
(* computes them.                                                          *)
(***************************************************************************)
EXTENDS Integers, Sequences, FiniteSets, TLC

VARIABLES
    pc,          \* position of the running call
    root,        \* the parsed source tree: element name -> text (or NoElem)
    metadata,    \* the Candidate Record under construction
    ret,         \* the value returned by the running call
    warnings,    \* TransformationLogger.warnings
    errors,      \* TransformationLogger.errors
    date_formats, \* TransformationLogger.statistics['date_formats'], in recording order
    license_detected, \* TransformationLogger.statistics['license_detected']
    frame,       \* local variables of _build_zenodo_metadata
    arg,         \* argument of a directly called function
    now_year,    \* datetime.now().year
    bbox_issues, \* TransformationLogger.statistics['bbox_issues']
    validation_results, \* ZenodoValidator.validation_results
    clock,       \* the reading of datetime.now()
    returned     \* the results the calls have returned so far, oldest first

vars == <<pc, root, metadata, ret, warnings, errors, date_formats, license_detected, frame, arg, now_year, bbox_issues, validation_results, clock, returned>>

(***************************************************************************)
(* Text helpers (Python str semantics)                                     *)
(***************************************************************************)
\* Python None; distinct from every text
None == <<"\\None">>

\* value of a call that has not returned yet
Pending == <<"\\Pending">>

\* an element that is absent from the tree (find() returns None)
\* a local name before its first assignment (the empty function)
Unbound == <<>>

NoElem == <<"\\NoElem">>

Digits == <<"0","1","2","3","4","5","6","7","8","9">>

UpperChars == <<"A","B","C","D","E","F","G","H","I","J","K","L","M","N","O","P","Q","R","S","T","U","V","W","X","Y","Z">>

LowerChars == <<"a","b","c","d","e","f","g","h","i","j","k","l","m","n","o","p","q","r","s","t","u","v","w","x","y","z">>

Whitespace == {" ", "\t", "\n", "\r"}

IsDigit(c) == \E i \in 1..10 : Digits[i] = c

DigitVal(c) == (CHOOSE i \in 1..10 : Digits[i] = c) - 1

AllDigits(s) == \A i \in 1..Len(s) : IsDigit(s[i])

LowerChar(c) ==
    IF \E i \in 1..26 : UpperChars[i] = c
    THEN LowerChars[CHOOSE i \in 1..26 : UpperChars[i] = c]
    ELSE c

\* str.lower()
Lower(s) == [i \in 1..Len(s) |-> LowerChar(s[i])]

\* s[a:b] with 0-based, end-exclusive Python indices (a, b >= 0)
Slice(s, a, b) ==
    LET hi == IF b > Len(s) THEN Len(s) ELSE b
    IN  IF a >= hi THEN <<>> ELSE SubSeq(s, a + 1, hi)

\* str.strip()
Strip(s) ==
    LET nonws == {i \in 1..Len(s) : s[i] \notin Whitespace}
    IN  IF nonws = {} THEN <<>>
        ELSE SubSeq(s, CHOOSE i \in nonws : \A j \in nonws : i <= j,
                       CHOOSE i \in nonws : \A j \in nonws : i >= j)

\* sub occurs in s at 1-based position i
OccursAt(s, sub, i) ==
    /\ i >= 1
    /\ i + Len(sub) - 1 <= Len(s)
    /\ \A k \in 1..Len(sub) : s[i + k - 1] = sub[k]

\* `sub in s`
Contains(s, sub) == \E i \in 1..(Len(s) + 1) : OccursAt(s, sub, i)

\* str.endswith
EndsWith(s, sub) == Len(sub) <= Len(s) /\ OccursAt(s, sub, Len(s) - Len(sub) + 1)

\* int() of a text of decimal digits
RECURSIVE IntOf(_)
IntOf(s) ==
    IF s = <<>> THEN 0
    ELSE 10 * IntOf(SubSeq(s, 1, Len(s) - 1)) + DigitVal(s[Len(s)])

\* str() / f"{n}" of a natural number: no padding
RECURSIVE StrOf(_)
StrOf(n) ==
    IF n < 10 THEN <<Digits[n + 1]>>
    ELSE StrOf(n \div 10) \o <<Digits[(n % 10) + 1]>>

\* strftime zero padding to width w
RECURSIVE Pad(_, _)
Pad(s, w) == IF Len(s) >= w THEN s ELSE Pad(<<"0">> \o s, w)

(***************************************************************************)
(* Regular expressions used by _normalize_date                             *)
(***************************************************************************)
\* re.match(r'^\d{n}-\d{n}$', s)
MatchDigitRange(s, n) ==
    /\ Len(s) = 2 * n + 1
    /\ AllDigits(SubSeq(s, 1, n))
    /\ s[n + 1] = "-"
    /\ AllDigits(SubSeq(s, n + 2, 2 * n + 1))

\* re.search(r'\d{n}', s): 1-based start of the leftmost match, 0 if none
SearchDigits(s, n) ==
    LET hits == {i \in 1..Len(s) : i + n - 1 <= Len(s) /\ AllDigits(SubSeq(s, i, i + n - 1))}
    IN  IF hits = {} THEN 0 ELSE CHOOSE i \in hits : \A j \in hits : i <= j

\* re.search(r'(\d{4})-Present', s): 1-based start of the leftmost match, 0 if none
SearchYearPresent(s) ==
    LET hits == {i \in 1..Len(s) : /\ i + 3 <= Len(s)
                                   /\ AllDigits(SubSeq(s, i, i + 3))
                                   /\ OccursAt(s, <<"-","P","r","e","s","e","n","t">>, i + 4)}
    IN  IF hits = {} THEN 0 ELSE CHOOSE i \in hits : \A j \in hits : i <= j

\* re.match(r'^\d{4}\s+\d{4}$', s)
MatchSpaceYears(s) ==
    /\ Len(s) >= 9
    /\ AllDigits(SubSeq(s, 1, 4))
    /\ AllDigits(SubSeq(s, Len(s) - 3, Len(s)))
    /\ \A i \in 5..(Len(s) - 4) : s[i] \in Whitespace

(***************************************************************************)
(* scripts/logger.py: structured diagnostics                               *)
(***************************************************************************)
FilePath == <<"r","e","c","o","r","d",".","x","m","l">>

\* the entry log_warning / log_error builds (the timestamp is left out)
Diag(sev, field, issue_type, value_found, expected, context, suggestion) ==
    [file |-> FilePath, field |-> field, issue_type |-> issue_type, severity |-> sev,
     value_found |-> value_found, expected |-> expected,
     context |-> context, suggestion |-> suggestion]

log_warning(field, issue_type, value_found, expected, context, suggestion) ==
    Diag("warning", field, issue_type, value_found, expected, context, suggestion)

log_error(field, issue_type, value_found, expected, context, suggestion) ==
    Diag("error", field, issue_type, value_found, expected, context, suggestion)

\* what a call appends to TransformationLogger.warnings / .errors
WarningsOf(log) == SelectSeq(log, LAMBDA d : d.severity = "warning")

ErrorsOf(log) == SelectSeq(log, LAMBDA d : d.severity = "error")

(***************************************************************************)
(* dateutil.parser.parse + strftime('%Y-%m-%d'), the last resort of        *)
(* _normalize_date.  Modelled on the tokens the model feeds it: a token    *)
(* of the shape dddd-dd-dd parses iff it is a calendar date; a token with  *)
(* a word that is no date component raises.                                *)
(***************************************************************************)
IsLeap(y) == (y % 4 = 0 /\ y % 100 # 0) \/ y % 400 = 0

DaysInMonth(y, m) ==
    IF m = 2 THEN (IF IsLeap(y) THEN 29 ELSE 28)
    ELSE IF m \in {4, 6, 9, 11} THEN 30 ELSE 31

IsoShaped(s) ==
    /\ Len(s) = 10
    /\ AllDigits(SubSeq(s, 1, 4)) /\ s[5] = "-"
    /\ AllDigits(SubSeq(s, 6, 7)) /\ s[8] = "-"
    /\ AllDigits(SubSeq(s, 9, 10))

\* [ok |-> FALSE] stands for a raised ParserError
dateutil_parse(s) ==
    IF ~IsoShaped(s) THEN [ok |-> FALSE, year |-> 0, month |-> 0, day |-> 0]
    ELSE LET y == IntOf(SubSeq(s, 1, 4))
             m == IntOf(SubSeq(s, 6, 7))
             d == IntOf(SubSeq(s, 9, 10))
         IN  [ok |-> y >= 1 /\ m \in 1..12 /\ d >= 1 /\ d <= DaysInMonth(y, m),
              year |-> y, month |-> m, day |-> d]

strftime(p) ==
    Pad(StrOf(p.year), 4) \o <<"-">> \o Pad(StrOf(p.month), 2) \o <<"-">> \o Pad(StrOf(p.day), 2)

(***************************************************************************)
(* FGDCToZenodoTransformer._normalize_date                                 *)
(***************************************************************************)
VagueDates == {<<"v","a","r","i","e","s">>, <<"u","n","k","n","o","w","n">>, <<"n","o","t"," ","s","p","e","c","i","f","i","e","d">>, <<"p","r","e","s","e","n","t">>}

StatusDates == {<<"p","l","a","n","n","e","d">>, <<"u","n","p","u","b","l","i","s","h","e","d">>, <<"u","n","p","u","b","l","i","s","h","e","d"," ","m","a","t","e","r","i","a","l">>}

\* two-digit years below the pivot are 20xx, the others 19xx
Pivot == 50

\* variant: every two-digit year is taken as 19xx
ExpandTwoDigitYear_NoPivot(year) == year + 1900

ExpandTwoDigitYear(year) == IF year < Pivot THEN year + 2000 ELSE year + 1900

DateField == "date_normalization"

SingleDate == <<"S","i","n","g","l","e"," ","d","a","t","e"," ","(","Y","Y","Y","Y","-","M","M","-","D","D",")">>

DateResult(value, log) == [ret |-> value, log |-> log]

\* the except clause: every exception is logged and turned into None
DateException(date_str, log) ==
    DateResult(None, log \o <<log_error(DateField, "invalid_date_format", date_str,
        <<"Y","Y","Y","Y",","," ","Y","Y","Y","Y","M","M",","," ","o","r"," ","Y","Y","Y","Y","M","M","D","D"," ","f","o","r","m","a","t">>,
        <<"C","o","u","l","d"," ","n","o","t"," ","p","a","r","s","e"," ","d","a","t","e",":"," ","U","n","k","n","o","w","n"," ","s","t","r","i","n","g"," ","f","o","r","m","a","t",":"," ">> \o date_str,
        <<"R","e","v","i","e","w"," ","d","a","t","e"," ","f","o","r","m","a","t"," ","a","n","d"," ","a","d","d"," ","p","a","r","s","i","n","g"," ","l","o","g","i","c">>)>>)

\* lines 612-627: plain 4/6/8-character tokens by slicing, anything else by dateutil
PlainOrDateutil(date_str, log) ==
    IF Len(date_str) = 4 THEN DateResult(date_str \o <<"-","0","1","-","0","1">>, log)
    ELSE IF Len(date_str) = 6
    THEN DateResult(Slice(date_str, 0, 4) \o <<"-">> \o Slice(date_str, 4, 6) \o <<"-","0","1">>, log)
    ELSE IF Len(date_str) = 8
    THEN DateResult(Slice(date_str, 0, 4) \o <<"-">> \o Slice(date_str, 4, 6)
                    \o <<"-">> \o Slice(date_str, 6, 8), log)
    ELSE LET parsed_date == dateutil_parse(date_str)
         IN  IF parsed_date.ok THEN DateResult(strftime(parsed_date), log)
             ELSE DateException(date_str, log)

\* lines 592-610: NN-MM two-digit year pairs
TwoDigitPair(date_str, log) ==
    IF MatchDigitRange(date_str, 2)
    THEN LET year1 == ExpandTwoDigitYear(IntOf(Slice(date_str, 0, 2)))
         IN  DateResult(StrOf(year1) \o <<"-","0","1","-","0","1">>,
                 log \o <<log_warning(DateField, "two_digit_year", date_str,
                     <<"F","o","u","r","-","d","i","g","i","t"," ","y","e","a","r"," ","(","Y","Y","Y","Y",")">>,
                     <<"T","w","o","-","d","i","g","i","t"," ","y","e","a","r"," ","r","a","n","g","e",":"," ">> \o date_str,
                     <<"C","o","n","v","e","r","t","e","d"," ","t","o"," ">> \o StrOf(year1))>>)
    ELSE PlainOrDateutil(date_str, log)

\* variant: the separators are looked for without their surrounding blanks
DashToRange_Unspaced(date_str, log) ==
    IF Contains(date_str, <<"-">>) \/ Contains(date_str, <<"t","o">>)
    THEN LET at == SearchDigits(date_str, 4)
             year == SubSeq(date_str, at, at + 3)
         IN  IF at # 0
             THEN DateResult(year \o <<"-","0","1","-","0","1">>,
                     log \o <<log_warning(DateField, "date_range", date_str, SingleDate,
                         <<"D","a","t","e"," ","r","a","n","g","e"," ","e","n","c","o","u","n","t","e","r","e","d",":"," ">> \o date_str,
                         <<"U","s","i","n","g"," ","f","i","r","s","t"," ","y","e","a","r"," ">> \o year \o <<" ","f","r","o","m"," ","r","a","n","g","e">>)>>)
             ELSE DateResult(None,
                     log \o <<log_error(DateField, "invalid_date_range", date_str,
                         <<"D","a","t","e"," ","r","a","n","g","e"," ","w","i","t","h"," ","e","x","t","r","a","c","t","a","b","l","e"," ","y","e","a","r">>,
                         <<"C","o","u","l","d"," ","n","o","t"," ","e","x","t","r","a","c","t"," ","y","e","a","r"," ","f","r","o","m"," ","r","a","n","g","e",":"," ">> \o date_str,
                         <<"A","d","d"," ","p","a","r","s","i","n","g"," ","l","o","g","i","c"," ","f","o","r"," ","d","a","t","e"," ","r","a","n","g","e","s">>)>>)
    ELSE TwoDigitPair(date_str, log)

\* lines 570-590: "a - b" and "a to b" ranges
DashToRange(date_str, log) ==
    IF Contains(date_str, <<" ","-"," ">>) \/ Contains(date_str, <<" ","t","o"," ">>)
    THEN LET at == SearchDigits(date_str, 4)
             year == SubSeq(date_str, at, at + 3)
         IN  IF at # 0
             THEN DateResult(year \o <<"-","0","1","-","0","1">>,
                     log \o <<log_warning(DateField, "date_range", date_str, SingleDate,
                         <<"D","a","t","e"," ","r","a","n","g","e"," ","e","n","c","o","u","n","t","e","r","e","d",":"," ">> \o date_str,
                         <<"U","s","i","n","g"," ","f","i","r","s","t"," ","y","e","a","r"," ">> \o year \o <<" ","f","r","o","m"," ","r","a","n","g","e">>)>>)
             ELSE DateResult(None,
                     log \o <<log_error(DateField, "invalid_date_range", date_str,
                         <<"D","a","t","e"," ","r","a","n","g","e"," ","w","i","t","h"," ","e","x","t","r","a","c","t","a","b","l","e"," ","y","e","a","r">>,
                         <<"C","o","u","l","d"," ","n","o","t"," ","e","x","t","r","a","c","t"," ","y","e","a","r"," ","f","r","o","m"," ","r","a","n","g","e",":"," ">> \o date_str,
                         <<"A","d","d"," ","p","a","r","s","i","n","g"," ","l","o","g","i","c"," ","f","o","r"," ","d","a","t","e"," ","r","a","n","g","e","s">>)>>)
    ELSE TwoDigitPair(date_str, log)

\* lines 526-568: "thru" ranges; without a two-digit number the error is
\* logged and the later rules still run
ThruRange(date_str, log) ==
    IF Contains(Lower(date_str), <<"t","h","r","u">>)
    THEN LET at == SearchDigits(date_str, 2)
             year == ExpandTwoDigitYear(IntOf(SubSeq(date_str, at, at + 1)))
         IN  IF at # 0
             THEN DateResult(StrOf(year) \o <<"-","0","1","-","0","1">>,
                     log \o <<log_warning(DateField, "complex_date_range", date_str, SingleDate,
                         <<"C","o","m","p","l","e","x"," ","d","a","t","e"," ","r","a","n","g","e",":"," ">> \o date_str,
                         <<"U","s","i","n","g"," ","f","i","r","s","t"," ","y","e","a","r"," ">> \o StrOf(year) \o <<" ","f","r","o","m"," ","r","a","n","g","e">>)>>)
             ELSE DashToRange(date_str,
                     log \o <<log_error(DateField, "no_numbers_found", date_str,
                         <<"D","a","t","e"," ","w","i","t","h"," ","e","x","t","r","a","c","t","a","b","l","e"," ","n","u","m","b","e","r","s">>,
                         <<"N","o"," ","2","-","d","i","g","i","t"," ","n","u","m","b","e","r","s"," ","f","o","u","n","d"," ","i","n",":"," ">> \o date_str,
                         <<"C","h","e","c","k"," ","r","e","g","e","x"," ","p","a","t","t","e","r","n">>)>>)
    ELSE DashToRange(date_str, log)

\* lines 515-524: "YYYY YYYY"
SpaceYears(date_str, log) ==
    IF Contains(date_str, <<" ">>) /\ MatchSpaceYears(date_str)
    THEN LET year == IntOf(Slice(date_str, 0, 4))
         IN  DateResult(StrOf(year) \o <<"-","0","1","-","0","1">>,
                 log \o <<log_warning(DateField, "space_separated_years", date_str, SingleDate,
                     <<"S","p","a","c","e","-","s","e","p","a","r","a","t","e","d"," ","y","e","a","r","s",":"," ">> \o date_str,
                     <<"U","s","i","n","g"," ","f","i","r","s","t"," ","y","e","a","r"," ">> \o StrOf(year))>>)
    ELSE ThruRange(date_str, log)

\* lines 503-513: YYYYMM-YYYYMM
MonthRange(date_str, log) ==
    IF MatchDigitRange(date_str, 6)
    THEN LET year == Slice(date_str, 0, 4)
             month == Slice(date_str, 4, 6)
         IN  DateResult(year \o <<"-">> \o month \o <<"-","0","1">>,
                 log \o <<log_warning(DateField, "month_range", date_str, SingleDate,
                     <<"M","o","n","t","h"," ","r","a","n","g","e"," ","e","n","c","o","u","n","t","e","r","e","d",":"," ">> \o date_str,
                     <<"U","s","i","n","g"," ","f","i","r","s","t"," ","m","o","n","t","h"," ">> \o year \o <<"-">> \o month)>>)
    ELSE SpaceYears(date_str, log)

\* lines 490-501: YYYY-Present
PresentRange(date_str, log) ==
    IF EndsWith(date_str, <<"-","P","r","e","s","e","n","t">>) /\ SearchYearPresent(date_str) # 0
    THEN LET at == SearchYearPresent(date_str)
             year == IntOf(SubSeq(date_str, at, at + 3))
         IN  DateResult(StrOf(year) \o <<"-","0","1","-","0","1">>,
                 log \o <<log_warning(DateField, "present_range", date_str, SingleDate,
                     <<"P","r","e","s","e","n","t"," ","r","a","n","g","e"," ","e","n","c","o","u","n","t","e","r","e","d",":"," ">> \o date_str,
                     <<"U","s","i","n","g"," ","y","e","a","r"," ">> \o StrOf(year))>>)
    ELSE MonthRange(date_str, log)

\* lines 477-488: comma-separated years
YearList(date_str, log) ==
    IF Contains(date_str, <<",">>) /\ SearchDigits(date_str, 4) # 0
    THEN LET at == SearchDigits(date_str, 4)
             year == IntOf(SubSeq(date_str, at, at + 3))
         IN  DateResult(StrOf(year) \o <<"-","0","1","-","0","1">>,
                 log \o <<log_warning(DateField, "multiple_years", date_str, SingleDate,
                     <<"M","u","l","t","i","p","l","e"," ","y","e","a","r","s"," ","e","n","c","o","u","n","t","e","r","e","d",":"," ">> \o date_str,
                     <<"U","s","i","n","g"," ","f","i","r","s","t"," ","y","e","a","r"," ">> \o StrOf(year))>>)
    ELSE PresentRange(date_str, log)

\* lines 464-475: YYYYMMDD-YYYYMMDD
FullDateRange(date_str, log) ==
    IF MatchDigitRange(date_str, 8)
    THEN LET first == Slice(date_str, 0, 4) \o <<"-">> \o Slice(date_str, 4, 6)
                      \o <<"-">> \o Slice(date_str, 6, 8)
         IN  DateResult(first,
                 log \o <<log_warning(DateField, "date_range", date_str, SingleDate,
                     <<"D","a","t","e"," ","r","a","n","g","e"," ","e","n","c","o","u","n","t","e","r","e","d",":"," ">> \o date_str,
                     <<"U","s","i","n","g"," ","f","i","r","s","t"," ","d","a","t","e"," ">> \o first \o <<" ","f","r","o","m"," ","r","a","n","g","e">>)>>)
    ELSE YearList(date_str, log)

\* lines 453-462: YYYY-YYYY
YearRange(date_str, log) ==
    IF MatchDigitRange(date_str, 4)
    THEN LET year == IntOf(Slice(date_str, 0, 4))
         IN  DateResult(StrOf(year) \o <<"-","0","1","-","0","1">>,
                 log \o <<log_warning(DateField, "date_range", date_str, SingleDate,
                     <<"D","a","t","e"," ","r","a","n","g","e"," ","e","n","c","o","u","n","t","e","r","e","d",":"," ">> \o date_str,
                     <<"U","s","i","n","g"," ","f","i","r","s","t"," ","y","e","a","r"," ">> \o StrOf(year) \o <<" ","f","r","o","m"," ","r","a","n","g","e">>)>>)
    ELSE FullDateRange(date_str, log)

\* _normalize_date(date_str, file_path), with datetime.now().year as current_year
_normalize_date(raw, current_year) ==
    LET date_str == Strip(raw)
        shown == IF date_str = <<>> THEN <<"e","m","p","t","y">> ELSE date_str
    IN  IF date_str = <<>> \/ Lower(date_str) \in VagueDates
        THEN DateResult(None,
                <<log_warning(DateField, "vague_date", shown, <<"S","p","e","c","i","f","i","c"," ","d","a","t","e"," ","(","Y","Y","Y","Y","-","M","M","-","D","D",")">>,
                    <<"V","a","g","u","e"," ","o","r"," ","e","m","p","t","y"," ","d","a","t","e"," ","e","n","c","o","u","n","t","e","r","e","d",":"," ">> \o shown,
                    <<"U","s","e"," ","m","e","t","a","d","a","t","a"," ","d","a","t","e"," ","o","r"," ","c","u","r","r","e","n","t"," ","d","a","t","e"," ","a","s"," ","f","a","l","l","b","a","c","k">>)>>)
        ELSE IF Lower(date_str) \in StatusDates
        THEN DateResult(StrOf(current_year) \o <<"-","0","1","-","0","1">>,
                <<log_warning(DateField, "status_date", date_str, <<"S","p","e","c","i","f","i","c"," ","d","a","t","e"," ","(","Y","Y","Y","Y","-","M","M","-","D","D",")">>,
                    <<"S","t","a","t","u","s"," ","d","a","t","e"," ","e","n","c","o","u","n","t","e","r","e","d",":"," ">> \o date_str,
                    <<"U","s","i","n","g"," ","c","u","r","r","e","n","t"," ","y","e","a","r"," ">> \o StrOf(current_year)
                        \o <<" ","f","o","r"," ","u","n","p","u","b","l","i","s","h","e","d","/","p","l","a","n","n","e","d"," ","m","a","t","e","r","i","a","l">>)>>)
        ELSE YearRange(date_str, <<>>)

(***************************************************************************)
(* Regular expressions of the pattern tables: a pattern is a sequence of   *)
(* literal characters and ".?" items (one optional character, no newline)  *)
(***************************************************************************)
\* the pattern from item k on matches s at position i
RECURSIVE MatchFrom(_, _, _, _)
MatchFrom(pattern, k, s, i) ==
    IF k > Len(pattern) THEN TRUE
    ELSE IF pattern[k] = ".?"
    THEN \/ (i <= Len(s) /\ s[i] # "\n" /\ MatchFrom(pattern, k + 1, s, i + 1))
         \/ MatchFrom(pattern, k + 1, s, i)
    ELSE i <= Len(s) /\ s[i] = pattern[k] /\ MatchFrom(pattern, k + 1, s, i + 1)

\* re.search(pattern, s) is not None
re_search(pattern, s) == \E i \in 1..(Len(s) + 1) : MatchFrom(pattern, 1, s, i)

\* the words of a text without blanks around it
RECURSIVE SplitWords(_)
SplitWords(t) ==
    LET ws == {i \in 1..Len(t) : t[i] \in Whitespace}
        cut == CHOOSE i \in ws : \A j \in ws : i <= j
    IN  IF t = <<>> THEN <<>>
        ELSE IF ws = {} THEN <<t>>
        ELSE <<SubSeq(t, 1, cut - 1)>> \o SplitWords(Strip(SubSeq(t, cut + 1, Len(t))))

\* str.split(): the whitespace-separated words
Words(s) == SplitWords(Strip(s))

\* ' '.join(words)
RECURSIVE JoinWords(_)
JoinWords(words) ==
    IF words = <<>> THEN <<>>
    ELSE IF Len(words) = 1 THEN words[1]
    ELSE words[1] \o <<" ">> \o JoinWords(Tail(words))

\* end of the whitespace run that starts at i (i - 1 if s[i] is no whitespace)
RECURSIVE RunEnd(_, _)
RunEnd(s, i) == IF i <= Len(s) /\ s[i] \in Whitespace THEN RunEnd(s, i + 1) ELSE i - 1

\* re.split(r'\s+and\s+', s, flags=re.IGNORECASE)
RECURSIVE SplitOnAnd(_)
SplitOnAnd(s) ==
    LET starts == {i \in 1..Len(s) :
                     /\ s[i] \in Whitespace
                     /\ LET a == RunEnd(s, i) + 1
                        IN  /\ a + 3 <= Len(s)
                            /\ Lower(SubSeq(s, a, a + 2)) = <<"a","n","d">>
                            /\ s[a + 3] \in Whitespace}
        first == CHOOSE i \in starts : \A j \in starts : i <= j
        last == RunEnd(s, RunEnd(s, first) + 4)
    IN  IF starts = {} THEN <<s>>
        ELSE <<SubSeq(s, 1, first - 1)>> \o SplitOnAnd(SubSeq(s, last + 1, Len(s)))

\* `elem is not None and elem.text`
HasText(elem) == elem # NoElem /\ elem # <<>>

\* what an extraction method hands back: its value, the diagnostics it
\* logged and the date tokens it recorded
Extracted(value, log, dates) == [ret |-> value, log |-> log, dates |-> dates]

(***************************************************************************)
(* FGDCToZenodoTransformer._extract_title                                  *)
(***************************************************************************)
\* Zenodo's title limit
TitleLimit == 250

\* characters kept in front of the ellipsis
TitleKept == 247

TitlePath == "idinfo.citation.citeinfo.title"

TitleMissing ==
    log_error(TitlePath, "missing_required_field", None, <<"N","o","n","-","e","m","p","t","y"," ","t","i","t","l","e"," ","t","e","x","t">>,
              <<"A","d","d"," ","t","i","t","l","e"," ","e","l","e","m","e","n","t"," ","t","o"," ","c","i","t","a","t","i","o","n"," ","s","e","c","t","i","o","n">>, <<>>)

\* variant: the cut keeps TitleLimit characters in front of the ellipsis
_extract_title_LongCut(tree) ==
    LET title == Strip(tree.title)
        truncated_title == Slice(title, 0, TitleLimit) \o <<".",".",".">>
    IN  IF HasText(tree.title) /\ title # <<>>
        THEN IF Len(title) > TitleLimit
             THEN Extracted(truncated_title,
                      <<log_warning(TitlePath, "title_truncated",
                          <<"T","i","t","l","e"," ","l","e","n","g","t","h",":"," ">> \o StrOf(Len(title)) \o <<" ","c","h","a","r","a","c","t","e","r","s">>,
                          <<"T","i","t","l","e"," ","u","n","d","e","r"," ","2","5","0"," ","c","h","a","r","a","c","t","e","r","s">>,
                          <<"T","r","u","n","c","a","t","e","d"," ","f","r","o","m"," ">> \o StrOf(Len(title)) \o <<" ","t","o"," ","2","5","0"," ","c","h","a","r","a","c","t","e","r","s",":"," ","'">>
                              \o truncated_title \o <<"'">>,
                          <<>>)>>, <<>>)
             ELSE Extracted(title, <<>>, <<>>)
        ELSE Extracted(None, <<TitleMissing>>, <<>>)

_extract_title(tree) ==
    LET title == Strip(tree.title)
        truncated_title == Slice(title, 0, TitleKept) \o <<".",".",".">>
    IN  IF HasText(tree.title) /\ title # <<>>
        THEN IF Len(title) > TitleLimit
             THEN Extracted(truncated_title,
                      <<log_warning(TitlePath, "title_truncated",
                          <<"T","i","t","l","e"," ","l","e","n","g","t","h",":"," ">> \o StrOf(Len(title)) \o <<" ","c","h","a","r","a","c","t","e","r","s">>,
                          <<"T","i","t","l","e"," ","u","n","d","e","r"," ","2","5","0"," ","c","h","a","r","a","c","t","e","r","s">>,
                          <<"T","r","u","n","c","a","t","e","d"," ","f","r","o","m"," ">> \o StrOf(Len(title)) \o <<" ","t","o"," ","2","5","0"," ","c","h","a","r","a","c","t","e","r","s",":"," ","'">>
                              \o truncated_title \o <<"'">>,
                          <<>>)>>, <<>>)
             ELSE Extracted(title, <<>>, <<>>)
        ELSE Extracted(None, <<TitleMissing>>, <<>>)

(***************************************************************************)
(* Creators: _extract_creators, _format_creator_name,                      *)
(* _parse_single_creator, _is_organization                                 *)
(***************************************************************************)
OriginPath == "idinfo.citation.citeinfo.origin"

org_patterns ==
    <<<<"n","o","a","a">>, <<"n","a","t","i","o","n","a","l",".?","o","c","e","a","n","i","c">>, <<"u","n","i","v","e","r","s","i","t","y",".?","o","f">>, <<"i","n","s","t","i","t","u","t","e">>,
      <<"c","e","n","t","e","r">>, <<"l","a","b">>, <<"d","e","p","a","r","t","m","e","n","t">>, <<"m","i","n","i","s","t","r","y">>, <<"a","g","e","n","c","y">>,
      <<"c","o","r","p","o","r","a","t","i","o","n">>, <<"i","n","c",".">>, <<"l","t","d",".">>, <<"c","o","r","p",".">>>>

_is_organization(text) ==
    \E k \in 1..Len(org_patterns) : re_search(org_patterns[k], Lower(text))

\* name_text.split(',', 1), each part stripped
SplitAtComma(name_text) ==
    LET at == CHOOSE i \in 1..Len(name_text) :
                  name_text[i] = "," /\ \A j \in 1..(i - 1) : name_text[j] # ","
    IN  <<Strip(SubSeq(name_text, 1, at - 1)), Strip(SubSeq(name_text, at + 1, Len(name_text)))>>

\* lines 349-356: "Last, First"
FamilyGiven(parts) == Extracted([name |-> parts[1] \o <<","," ">> \o parts[2]], <<>>, <<>>)

\* lines 357-384: "First Last", the last word being the family name, or the
\* name as it is
FirstLast(name_text, words) ==
    IF Len(words) >= 2
    THEN Extracted([name |-> words[Len(words)] \o <<","," ">>
                             \o JoinWords(SubSeq(words, 1, Len(words) - 1))],
                   <<>>, <<>>)
    ELSE Extracted([name |-> name_text],
             <<log_warning(OriginPath, "unparseable_creator_name", name_text,
                 <<"F","a","m","i","l","y",","," ","G","i","v","e","n"," ","f","o","r","m","a","t"," ","o","r"," ","O","r","g","a","n","i","z","a","t","i","o","n">>,
                 <<"C","o","u","l","d"," ","n","o","t"," ","p","a","r","s","e"," ","c","r","e","a","t","o","r"," ","n","a","m","e",":"," ">> \o name_text,
                 <<"R","e","v","i","e","w"," ","n","a","m","e"," ","f","o","r","m","a","t"," ","o","r"," ","a","d","d"," ","o","r","g","a","n","i","z","a","t","i","o","n"," ","d","e","t","e","c","t","i","o","n">>)>>, <<>>)

_parse_single_creator(name_text) ==
    IF Contains(name_text, <<",">>)
    THEN FamilyGiven(SplitAtComma(name_text))
    ELSE FirstLast(name_text, Words(name_text))

\* creators.append(creator), with the diagnostics of the call
Appended(one, rest) ==
    [creators |-> <<one.ret>> \o rest.creators, log |-> one.log \o rest.log]

\* the creators of the parts of one text split on "and", with their diagnostics
RECURSIVE ParseParts(_)
ParseParts(parts) ==
    IF parts = <<>> THEN [creators |-> <<>>, log |-> <<>>]
    ELSE Appended(_parse_single_creator(Strip(parts[1])), ParseParts(Tail(parts)))

\* line 330: creators[0] if len(creators) == 1 else None
SoleCreator(parsed) ==
    Extracted(IF Len(parsed.creators) = 1 THEN <<parsed.creators[1]>> ELSE <<>>,
              parsed.log, <<>>)

\* a creator as a list of one creator
Listed(one) == Extracted(<<one.ret>>, one.log, <<>>)

\* the Optional[Dict] it returns is a list of at most one creator here
_format_creator_name(origin_text) ==
    IF _is_organization(origin_text)
    THEN Extracted(<<[name |-> origin_text, type |-> "Organization"]>>, <<>>, <<>>)
    ELSE IF Contains(Lower(origin_text), <<" ","a","n","d"," ">>)
    THEN SoleCreator(ParseParts(SplitOnAnd(origin_text)))
    ELSE Listed(_parse_single_creator(origin_text))

\* the creators of the optional creator
Formatted(creator) == [creators |-> creator.ret, log |-> creator.log]

\* lines 285-300: the creators of one origin element
OriginCreators(origin_text) ==
    IF origin_text = <<>>
    THEN [creators |-> <<>>, log |-> <<>>]
    ELSE IF Contains(Lower(origin_text), <<" ","a","n","d"," ">>)
    THEN ParseParts(SplitOnAnd(origin_text))
    ELSE Formatted(_format_creator_name(origin_text))

\* the creators of two runs of origin elements
Joined(here, rest) ==
    [creators |-> here.creators \o rest.creators, log |-> here.log \o rest.log]

\* the loop over the origin elements
RECURSIVE CreatorsOf(_)
CreatorsOf(origins) ==
    IF origins = <<>> THEN [creators |-> <<>>, log |-> <<>>]
    ELSE Joined(OriginCreators(Strip(origins[1])), CreatorsOf(Tail(origins)))

\* lines 302-309
CreatorsOrError(found) ==
    IF found.creators = <<>>
    THEN Extracted(<<>>, found.log \o
             <<log_error(OriginPath, "no_valid_creators",
                 <<"E","m","p","t","y"," ","o","r"," ","i","n","v","a","l","i","d"," ","o","r","i","g","i","n"," ","t","e","x","t">>, <<"V","a","l","i","d"," ","c","r","e","a","t","o","r"," ","n","a","m","e","s">>,
                 <<"E","n","s","u","r","e"," ","o","r","i","g","i","n"," ","e","l","e","m","e","n","t","s"," ","c","o","n","t","a","i","n"," ","v","a","l","i","d"," ","c","r","e","a","t","o","r"," ","i","n","f","o","r","m","a","t","i","o","n">>, <<>>)>>,
             <<>>)
    ELSE Extracted(found.creators, found.log, <<>>)

\* root.origin is the list of the texts of the origin elements, in document order
_extract_creators(tree) ==
    IF tree.origin = <<>>
    THEN Extracted(<<>>,
             <<log_error(OriginPath, "missing_required_field", None,
                 <<"A","t"," ","l","e","a","s","t"," ","o","n","e"," ","o","r","i","g","i","n"," ","e","l","e","m","e","n","t">>,
                 <<"A","d","d"," ","o","r","i","g","i","n"," ","e","l","e","m","e","n","t"," ","t","o"," ","c","i","t","a","t","i","o","n"," ","s","e","c","t","i","o","n">>, <<>>)>>, <<>>)
    ELSE CreatorsOrError(CreatorsOf(tree.origin))

(***************************************************************************)
(* _extract_publication_date and _extract_description                      *)
(***************************************************************************)
PubdatePath == "idinfo.citation.citeinfo.pubdate"

AbstractPath == "idinfo.descript.abstract"

\* the date of a token with the diagnostics of its normalization;
\* record_date_format(token) comes first
Recorded(token, r) == Extracted(r.ret, r.log, <<token>>)

\* _normalize_date on the stripped text of an element, when it has any
NormalizedElem(elem, current_year) ==
    IF HasText(elem) /\ Strip(elem) # <<>>
    THEN Recorded(Strip(elem), _normalize_date(Strip(elem), current_year))
    ELSE Extracted(None, <<>>, <<>>)

\* lines 396-421, pub and met being the outcomes on pubdate and metd
PublicationDateOf(pub, met, metd_text, current_year) ==
    IF pub.ret # None THEN pub
    ELSE IF met.ret # None
    THEN Extracted(met.ret,
             pub.log \o met.log \o
             <<log_warning(PubdatePath, "missing_publication_date", None,
                 <<"P","u","b","l","i","c","a","t","i","o","n"," ","d","a","t","e"," ","i","n"," ","c","i","t","a","t","i","o","n">>,
                 <<"U","s","i","n","g"," ","m","e","t","a","d","a","t","a"," ","d","a","t","e"," ","a","s"," ","f","a","l","l","b","a","c","k",":"," ">> \o metd_text,
                 <<"A","d","d"," ","p","u","b","l","i","c","a","t","i","o","n"," ","d","a","t","e"," ","t","o"," ","c","i","t","a","t","i","o","n"," ","s","e","c","t","i","o","n">>)>>,
             pub.dates \o met.dates)
    ELSE Extracted(None,
             pub.log \o met.log \o
             <<log_error(PubdatePath, "missing_required_field", None,
                 <<"P","u","b","l","i","c","a","t","i","o","n"," ","d","a","t","e"," ","(","Y","Y","Y","Y",","," ","Y","Y","Y","Y","M","M",","," ","o","r"," ","Y","Y","Y","Y","M","M","D","D",")">>,
                 <<"A","d","d"," ","p","u","b","d","a","t","e"," ","e","l","e","m","e","n","t"," ","t","o"," ","c","i","t","a","t","i","o","n"," ","s","e","c","t","i","o","n">>, <<>>)>>,
             pub.dates \o met.dates)

_extract_publication_date(tree, current_year) ==
    PublicationDateOf(NormalizedElem(tree.pubdate, current_year),
                      NormalizedElem(tree.metd, current_year),
                      Strip(tree.metd), current_year)

\* the warning logged when a fallback source stands in for the abstract
DescriptionFallback(found, used) ==
    log_warning(AbstractPath, "missing_required_field", found,
                <<"N","o","n","-","e","m","p","t","y"," ","a","b","s","t","r","a","c","t"," ","t","e","x","t">>, used, <<>>)

_extract_description(tree) ==
    IF HasText(tree.abstract) /\ Strip(tree.abstract) # <<>>
    THEN Extracted(Strip(tree.abstract), <<>>, <<>>)
    ELSE IF HasText(tree.purpose) /\ Strip(tree.purpose) # <<>>
    THEN Extracted(Strip(tree.purpose),
             <<DescriptionFallback(<<"N","o"," ","a","b","s","t","r","a","c","t"," ","f","o","u","n","d",","," ","u","s","i","n","g"," ","p","u","r","p","o","s","e">>,
                                   <<"U","s","i","n","g"," ","p","u","r","p","o","s","e"," ","a","s"," ","f","a","l","l","b","a","c","k"," ","d","e","s","c","r","i","p","t","i","o","n">>)>>, <<>>)
    ELSE IF HasText(tree.supplinf) /\ Strip(tree.supplinf) # <<>>
    THEN Extracted(Strip(tree.supplinf),
             <<DescriptionFallback(<<"N","o"," ","a","b","s","t","r","a","c","t"," ","o","r"," ","p","u","r","p","o","s","e"," ","f","o","u","n","d",","," ","u","s","i","n","g"," ","s","u","p","p","l","i","n","f">>,
                                   <<"U","s","i","n","g"," ","s","u","p","p","l","e","m","e","n","t","a","l"," ","i","n","f","o","r","m","a","t","i","o","n"," ","a","s"," ","f","a","l","l","b","a","c","k"," ","d","e","s","c","r","i","p","t","i","o","n">>)>>,
             <<>>)
    ELSE IF HasText(tree.title) /\ Strip(tree.title) # <<>>
    THEN Extracted(<<"D","a","t","a","s","e","t",":"," ">> \o Strip(tree.title),
             <<DescriptionFallback(<<"N","o"," ","d","e","s","c","r","i","p","t","i","o","n"," ","f","o","u","n","d",","," ","u","s","i","n","g"," ","t","i","t","l","e">>,
                                   <<"U","s","i","n","g"," ","t","i","t","l","e"," ","a","s"," ","m","i","n","i","m","a","l"," ","d","e","s","c","r","i","p","t","i","o","n">>)>>, <<>>)
    ELSE Extracted(None,
             <<log_error(AbstractPath, "missing_required_field", None,
                 <<"N","o","n","-","e","m","p","t","y"," ","a","b","s","t","r","a","c","t"," ","t","e","x","t">>,
                 <<"A","d","d"," ","a","b","s","t","r","a","c","t"," ","e","l","e","m","e","n","t"," ","t","o"," ","d","e","s","c","r","i","p","t"," ","s","e","c","t","i","o","n">>, <<>>)>>, <<>>)

(***************************************************************************)
(* License & access: _extract_access_constraints, _detect_license,         *)
(* _extract_security_info, the fees of _extract_distribution_info          *)
(***************************************************************************)
\* the default permissive id
DefaultLicense == <<"c","c","-","z","e","r","o">>

\* the registry, in the order of the dict
license_patterns ==
    <<[id |-> <<"c","c","-","z","e","r","o">>, patterns |-> <<<<"c","c",".?","z","e","r","o">>, <<"p","u","b","l","i","c",".?","d","o","m","a","i","n">>,
                                        <<"n","o",".?","r","i","g","h","t","s",".?","r","e","s","e","r","v","e","d">>, <<"p","u","b","l","i","c",".?","d","o","m","a","i","n">>>>],
      [id |-> <<"c","c","-","b","y","-","4",".","0">>, patterns |-> <<<<"c","c",".?","b","y",".?","4">>, <<"c","r","e","a","t","i","v","e",".?","c","o","m","m","o","n","s",".?","a","t","t","r","i","b","u","t","i","o","n">>,
                                          <<"c","c",".?","b","y">>>>],
      [id |-> <<"c","c","-","b","y","-","s","a","-","4",".","0">>, patterns |-> <<<<"c","c",".?","b","y",".?","s","a",".?","4">>, <<"c","r","e","a","t","i","v","e",".?","c","o","m","m","o","n","s",".?","s","h","a","r","e","a","l","i","k","e">>,
                                             <<"c","c",".?","b","y",".?","s","a">>>>],
      [id |-> <<"m","i","t">>, patterns |-> <<<<"m","i","t",".?","l","i","c","e","n","s","e">>, <<"m","a","s","s","a","c","h","u","s","e","t","t","s",".?","i","n","s","t","i","t","u","t","e",".?","o","f",".?","t","e","c","h","n","o","l","o","g","y">>>>],
      [id |-> <<"a","p","a","c","h","e","-","2",".","0">>, patterns |-> <<<<"a","p","a","c","h","e",".?","2">>, <<"a","p","a","c","h","e",".?","l","i","c","e","n","s","e">>>>],
      [id |-> <<"g","p","l","-","3",".","0">>, patterns |-> <<<<"g","p","l",".?","3">>, <<"g","n","u",".?","g","e","n","e","r","a","l",".?","p","u","b","l","i","c",".?","l","i","c","e","n","s","e",".?","3">>>>],
      [id |-> <<"o","p","e","n">>, patterns |-> <<<<"o","p","e","n",".?","a","c","c","e","s","s">>, <<"f","r","e","e","l","y",".?","a","v","a","i","l","a","b","l","e">>, <<"n","o",".?","r","e","s","t","r","i","c","t","i","o","n","s">>>>]>>

\* the text of an element, stripped, or "" when the element or its text is missing
TextOrEmpty(elem) == IF HasText(elem) THEN Strip(elem) ELSE <<>>

NotALicense == {<<"n","o","n","e">>, <<"n","/","a">>, <<"n","o","t"," ","a","p","p","l","i","c","a","b","l","e">>, <<"n","o","t"," ","s","p","e","c","i","f","i","e","d">>}

\* the id of the first registry entry with a matching pattern, None if there is none
FirstLicenseMatch(text_lower) ==
    LET hits == {k \in 1..Len(license_patterns) :
                    \E j \in 1..Len(license_patterns[k].patterns) :
                        re_search(license_patterns[k].patterns[j], text_lower)}
    IN  IF hits = {} THEN None
        ELSE license_patterns[CHOOSE k \in hits : \A j \in hits : k <= j].id

\* variant: the text "none" and its like is handed back as the license
_detect_license_Verbatim(useconst_text) ==
    LET text_lower == Strip(Lower(useconst_text))
    IN  IF useconst_text = <<>> THEN Extracted(None, <<>>, <<>>)
        ELSE IF text_lower \in NotALicense THEN Extracted(text_lower, <<>>, <<>>)
        ELSE Extracted(FirstLicenseMatch(text_lower), <<>>, <<>>)

_detect_license(useconst_text) ==
    LET text_lower == Strip(Lower(useconst_text))
    IN  IF useconst_text = <<>> THEN Extracted(None, <<>>, <<>>)
        ELSE IF text_lower \in NotALicense
        THEN Extracted(DefaultLicense,
                 <<log_warning("idinfo.useconst", "invalid_license_detected", useconst_text,
                     <<"V","a","l","i","d"," ","l","i","c","e","n","s","e"," ","i","d","e","n","t","i","f","i","e","r">>,
                     <<"I","n","v","a","l","i","d"," ","l","i","c","e","n","s","e"," ","'">> \o useconst_text \o <<"'"," ","d","e","t","e","c","t","e","d",","," ","u","s","i","n","g"," ","d","e","f","a","u","l","t"," ","c","c","-","z","e","r","o">>,
                     <<>>)>>, <<>>)
        ELSE Extracted(FirstLicenseMatch(text_lower), <<>>, <<>>)

\* m[k] = v, adding the key when it is new
Put(m, k, v) == [x \in (DOMAIN m) \cup {k} |-> IF x = k THEN v ELSE m[x]]

OpenWords == {<<"n","o","n","e">>, <<"o","p","e","n">>, <<"p","u","b","l","i","c">>}

RestrictedWords == {<<"r","e","s","t","r","i","c","t","e","d">>, <<"b","y"," ","r","e","q","u","e","s","t">>, <<"r","e","g","i","s","t","r","a","t","i","o","n">>}

\* variant: the phrases are compared without lower()
AccessRightOf_CaseSensitive(md, accconst_text) ==
    IF accconst_text \in OpenWords THEN Put(md, "access_right", "open")
    ELSE IF \E word \in RestrictedWords : Contains(accconst_text, word)
    THEN Put(Put(md, "access_right", "restricted"), "access_conditions", accconst_text)
    ELSE Put(md, "access_right", "open")

\* lines 803-811
AccessRightOf(md, accconst_text) ==
    IF Lower(accconst_text) \in OpenWords THEN Put(md, "access_right", "open")
    ELSE IF \E word \in RestrictedWords : Contains(Lower(accconst_text), word)
    THEN Put(Put(md, "access_right", "restricted"), "access_conditions", accconst_text)
    ELSE Put(md, "access_right", "open")

\* the metadata after the call, the diagnostics logged, and whether
\* record_license_detected was called
_extract_access_constraints(md, tree) ==
    LET accconst_text == TextOrEmpty(tree.accconst)
        useconst_text == TextOrEmpty(tree.useconst)
        md1 == AccessRightOf(md, accconst_text)
        license_detected_ == _detect_license(useconst_text)
    IN  IF license_detected_.ret # None
        THEN [md |-> Put(md1, "license", license_detected_.ret),
              log |-> license_detected_.log, detected |-> 1]
        ELSE IF md1.access_right \in {"open", "embargoed"}
        THEN [md |-> Put(md1, "license", DefaultLicense), log |-> license_detected_.log, detected |-> 0]
        ELSE [md |-> md1, log |-> license_detected_.log, detected |-> 0]

ClassifiedLevels == {<<"r","e","s","t","r","i","c","t","e","d">>, <<"c","o","n","f","i","d","e","n","t","i","a","l">>, <<"s","e","c","r","e","t">>}

\* variant: the classification restricts access without stating the conditions
_extract_security_info_NoConditions(md, tree) ==
    IF HasText(tree.secclass) /\ Strip(Lower(tree.secclass)) \in ClassifiedLevels
    THEN Put(md, "access_right", "restricted")
    ELSE md

\* root.secclass and root.sechandl are the children of the first secinfo element
_extract_security_info(md, tree) ==
    IF HasText(tree.secclass) /\ Strip(Lower(tree.secclass)) \in ClassifiedLevels
    THEN LET md1 == Put(md, "access_right", "restricted")
             md2 == IF "access_conditions" \notin DOMAIN md1
                    THEN Put(md1, "access_conditions",
                             <<"S","e","c","u","r","i","t","y"," ","c","l","a","s","s","i","f","i","c","a","t","i","o","n",":"," ">> \o Strip(tree.secclass))
                    ELSE md1
         IN  IF HasText(tree.sechandl)
             THEN Put(md2, "access_conditions",
                      md2.access_conditions \o <<";"," ","H","a","n","d","l","i","n","g",":"," ">> \o Strip(tree.sechandl))
             ELSE md2
    ELSE md

\* lines 1504-1512 of _extract_distribution_info: root.fees is
\* distinfo/stdorder/fees; on an unrestricted record the fees go to the notes
_extract_distribution_info(md, tree) ==
    IF HasText(tree.fees)
    THEN IF md.access_right = "restricted"
         THEN LET md1 == IF "access_conditions" \notin DOMAIN md
                         THEN Put(md, "access_conditions", <<>>) ELSE md
              IN  Put(md1, "access_conditions",
                      md1.access_conditions \o <<" ","F","e","e","s",":"," ">> \o Strip(tree.fees))
         ELSE Put(md, "notes", md.notes \o <<"\n", "\n">> \o <<"F","e","e","s",":"," ">> \o Strip(tree.fees))
    ELSE md

(***************************************************************************)
(* Notes: _extract_temporal_coverage, _extract_spatial_coverage,           *)
(* _build_notes                                                            *)
(***************************************************************************)
\* '\n'.join(lines)
RECURSIVE JoinLines(_)
JoinLines(lines) ==
    IF lines = <<>> THEN <<>>
    ELSE IF Len(lines) = 1 THEN lines[1]
    ELSE lines[1] \o <<"\n">> \o JoinLines(Tail(lines))

\* '\n\n'.join(parts)
RECURSIVE JoinParts(_)
JoinParts(parts) ==
    IF parts = <<>> THEN <<>>
    ELSE IF Len(parts) = 1 THEN parts[1]
    ELSE parts[1] \o <<"\n", "\n">> \o JoinParts(Tail(parts))

\* lines 885-887 and 941-943: text goes to the end of the notes, after a
\* blank line when there are notes already
AppendToNotes(md, text) ==
    Put(md, "notes", (IF md.notes # <<>> THEN md.notes \o <<"\n", "\n">> ELSE <<>>) \o text)

\* what a step hands on: lines for the notes, diagnostics, recorded dates
Gathered(lines, log, dates) == [lines |-> lines, log |-> log, dates |-> dates]

\* _normalize_date(elem.text.strip(), file_path)
NormalizedText(elem, current_year) ==
    Recorded(Strip(elem), _normalize_date(Strip(elem), current_year))

\* lines 854-856
CurrentnessLines(tree) ==
    IF HasText(tree.current) THEN <<<<"C","u","r","r","e","n","t","n","e","s","s",":"," ">> \o Strip(tree.current)>> ELSE <<>>

\* lines 867-872, beg_date being there and enddate having a text
RangeWithEnd(beg, end) ==
    Gathered(<<<<"T","e","m","p","o","r","a","l"," ","c","o","v","e","r","a","g","e",":"," ">> \o beg.ret \o
                  (IF end.ret # None THEN <<" ","t","o"," ">> \o end.ret ELSE <<" ","o","n","w","a","r","d","s">>)>>,
             beg.log \o end.log, beg.dates \o end.dates)

\* lines 864-874, begdate having a text
RangeFrom(beg, tree, current_year) ==
    IF beg.ret = None THEN Gathered(<<>>, beg.log, beg.dates)
    ELSE IF HasText(tree.enddate)
    THEN RangeWithEnd(beg, NormalizedText(tree.enddate, current_year))
    ELSE Gathered(<<<<"T","e","m","p","o","r","a","l"," ","c","o","v","e","r","a","g","e",":"," ">> \o beg.ret \o <<" ","o","n","w","a","r","d","s">>>>, beg.log, beg.dates)

\* lines 859-874: root.begdate and root.enddate are the children of rngdates
RangeLines(tree, current_year) ==
    IF HasText(tree.begdate)
    THEN RangeFrom(NormalizedText(tree.begdate, current_year), tree, current_year)
    ELSE Gathered(<<>>, <<>>, <<>>)

\* lines 880-881
SingleFrom(single) ==
    Gathered(IF single.ret # None THEN <<<<"T","e","m","p","o","r","a","l"," ","c","o","v","e","r","a","g","e",":"," ">> \o single.ret>> ELSE <<>>,
             single.log, single.dates)

\* lines 877-881
SingleLines(tree, current_year) ==
    IF HasText(tree.sngdate)
    THEN SingleFrom(NormalizedText(tree.sngdate, current_year))
    ELSE Gathered(<<>>, <<>>, <<>>)

\* temporal_info, with the diagnostics and the recorded dates of the calls made
TemporalInfo(current, range, single) ==
    Gathered(current \o range.lines \o single.lines,
             range.log \o single.log, range.dates \o single.dates)

\* lines 883-887
TemporalWritten(md, info) ==
    [md |-> IF info.lines # <<>>
            THEN AppendToNotes(md, <<"T","e","m","p","o","r","a","l"," ","I","n","f","o","r","m","a","t","i","o","n",":">> \o <<"\n">> \o JoinLines(info.lines))
            ELSE md,
     log |-> info.log, dates |-> info.dates]

\* root.current, root.begdate, root.enddate and root.sngdate are the
\* descendants of the first timeperd element
_extract_temporal_coverage(md, tree, current_year) ==
    TemporalWritten(md, TemporalInfo(CurrentnessLines(tree), RangeLines(tree, current_year),
                                     SingleLines(tree, current_year)))

\* the sign and digits of a stripped coordinate text
CoordDigits(t) == IF t # <<>> /\ t[1] \in {"-", "+"} THEN Tail(t) ELSE t

\* float(text) on whole numbers written with or without a sign: the number,
\* or a ValueError for a text that is no number
ParseFloat(text) ==
    IF CoordDigits(Strip(text)) # <<>> /\ AllDigits(CoordDigits(Strip(text)))
    THEN [ok |-> TRUE,
          value |-> IF Strip(text)[1] = "-" THEN 0 - IntOf(CoordDigits(Strip(text)))
                    ELSE IntOf(CoordDigits(Strip(text))),
          text |-> Strip(text)]
    ELSE [ok |-> FALSE, value |-> 0, text |-> Strip(text)]

\* f"{x}" of a float with a whole value
FloatText(x) == (IF x < 0 THEN <<"-">> ELSE <<>>) \o StrOf(IF x < 0 THEN 0 - x ELSE x) \o <<".","0">>

\* lines 911-914 and 934-937
WrapLongitude(x) == IF x > 180 THEN x - 360 ELSE x

Coordinates(west, east, north, south) ==
    <<"W">> \o FloatText(west) \o <<","," ","E">> \o FloatText(east)
    \o <<","," ","N">> \o FloatText(north) \o <<","," ","S">> \o FloatText(south)

\* what the classification of a box gives: the line for the notes, the
\* diagnostics and the bbox issues recorded
BoxOutcome(spatial_info, log, issues) ==
    [spatial_info |-> spatial_info, log |-> log, issues |-> issues]

\* lines 918-929
Crossing(west, east, north, south) ==
    BoxOutcome(<<"S","p","a","t","i","a","l"," ","c","o","v","e","r","a","g","e",":"," ">> \o Coordinates(west, east, north, south)
                    \o <<" ","(","c","r","o","s","s","e","s"," ","d","a","t","e","l","i","n","e",")">>,
                <<log_warning("spdom.bounding", "dateline_crossing",
                      <<"w","e","s","t","=">> \o FloatText(west) \o <<","," ","e","a","s","t","=">> \o FloatText(east),
                      <<"w","e","s","t"," ","<"," ","e","a","s","t">>, <<"B","o","u","n","d","i","n","g"," ","b","o","x"," ","c","r","o","s","s","e","s"," ","d","a","t","e","l","i","n","e">>,
                      <<"C","o","n","s","i","d","e","r"," ","s","p","l","i","t","t","i","n","g"," ","i","n","t","o"," ","t","w","o"," ","b","o","u","n","d","i","n","g"," ","b","o","x","e","s"," ","o","r"," ","u","s","i","n","g"," ","a"," ","d","i","f","f","e","r","e","n","t"," ","r","e","p","r","e","s","e","n","t","a","t","i","o","n">>)>>,
                <<[issue |-> "dateline_crossing",
                   coordinates |-> [west |-> west, east |-> east, north |-> north, south |-> south]]>>)

Normal(west, east, north, south) ==
    BoxOutcome(<<"S","p","a","t","i","a","l"," ","c","o","v","e","r","a","g","e",":"," ">> \o Coordinates(west, east, north, south), <<>>, <<>>)

\* lines 917-931, after the longitudes are wrapped
AfterWrap(west, east, north, south) ==
    IF west > east THEN Crossing(west, east, north, south) ELSE Normal(west, east, north, south)

\* lines 908-938
ClassifyBox(west, east, north, south) ==
    IF west > east
    THEN AfterWrap(WrapLongitude(west), WrapLongitude(east), north, south)
    ELSE Normal(WrapLongitude(west), WrapLongitude(east), north, south)

\* lines 945-950: the ValueError of float()
InvalidCoordinates(text) ==
    log_error("spdom.bounding", "invalid_coordinates",
              <<"C","o","u","l","d"," ","n","o","t"," ","p","a","r","s","e"," ","c","o","o","r","d","i","n","a","t","e","s",":"," ","c","o","u","l","d"," ","n","o","t"," ","c","o","n","v","e","r","t"," ","s","t","r","i","n","g"," ","t","o"," ","f","l","o","a","t",":"," ","'">> \o text \o <<"'">>,
              <<"V","a","l","i","d"," ","n","u","m","e","r","i","c"," ","c","o","o","r","d","i","n","a","t","e","s">>, <<"C","h","e","c","k"," ","c","o","o","r","d","i","n","a","t","e"," ","f","o","r","m","a","t"," ","a","n","d"," ","v","a","l","u","e","s">>, <<>>)

\* lines 940-943
SpatialWritten(md, box) ==
    [md |-> AppendToNotes(md, box.spatial_info), log |-> box.log, issues |-> box.issues]

SpatialFailed(md, text) == [md |-> md, log |-> <<InvalidCoordinates(text)>>, issues |-> <<>>]

\* lines 901-943 on the four parsed texts
SpatialOf(md, west, east, north, south) ==
    IF ~west.ok THEN SpatialFailed(md, west.text)
    ELSE IF ~east.ok THEN SpatialFailed(md, east.text)
    ELSE IF ~north.ok THEN SpatialFailed(md, north.text)
    ELSE IF ~south.ok THEN SpatialFailed(md, south.text)
    ELSE SpatialWritten(md, ClassifyBox(west.value, east.value, north.value, south.value))

\* root.westbc .. root.southbc are the children of spdom/bounding
_extract_spatial_coverage(md, tree) ==
    IF HasText(tree.westbc) /\ HasText(tree.eastbc) /\ HasText(tree.northbc) /\ HasText(tree.southbc)
    THEN SpatialOf(md, ParseFloat(tree.westbc), ParseFloat(tree.eastbc),
                   ParseFloat(tree.northbc), ParseFloat(tree.southbc))
    ELSE [md |-> md, log |-> <<>>, issues |-> <<>>]

\* lines 1538-1541 and 1579-1582 of _extract_metadata_info: root.metd is
\* metainfo/metd, the one metainfo element of the trees
_extract_metadata_info(md, tree) ==
    IF HasText(tree.metd)
    THEN Put(md, "notes", md.notes \o <<"\n", "\n">> \o <<"F","G","D","C"," ","m","e","t","a","d","a","t","a"," ","d","a","t","e",":"," ">> \o Strip(tree.metd))
    ELSE md

\* one part of the notes, when the element has a text
NotesPart(label, elem) == IF HasText(elem) THEN <<label \o Strip(elem)>> ELSE <<>>

_build_notes(tree) ==
    JoinParts(NotesPart(<<"P","u","r","p","o","s","e",":"," ">>, tree.purpose)
              \o NotesPart(<<"S","u","p","p","l","e","m","e","n","t","a","l"," ","I","n","f","o","r","m","a","t","i","o","n",":"," ">>, tree.supplinf)
              \o NotesPart(<<"S","t","a","t","u","s",":"," ">>, tree.progress)
              \o NotesPart(<<"M","a","i","n","t","e","n","a","n","c","e"," ","f","r","e","q","u","e","n","c","y",":"," ">>, tree.update)
              \o NotesPart(<<"A","c","c","e","s","s"," ","c","o","n","s","t","r","a","i","n","t","s",":"," ">>, tree.accconst)
              \o NotesPart(<<"U","s","e"," ","c","o","n","s","t","r","a","i","n","t","s",":"," ">>, tree.useconst))

\* surrounding blanks tried around every token
MaxTokenPad == 1

RECURSIVE Blanks(_)
Blanks(n) == IF n = 0 THEN <<>> ELSE <<" ">> \o Blanks(n - 1)

Padded(tokens) == {Blanks(k) \o t \o Blanks(k) : k \in 0..MaxTokenPad, t \in tokens}

NowYears == {2025, 2026}

(***************************************************************************)
(* Specification Spec: _build_zenodo_metadata, one step per extraction     *)
(* method it calls, on one source tree.  Of the methods called by          *)
(* _add_optional_fields and _extract_additional_fields the steps are the   *)
(* ones that write access_right, license or access_conditions, and the     *)
(* ones of _add_optional_fields that write notes.                          *)
(***************************************************************************)
\* origin elements per tree
MaxOrigins == 2

\* `not value`
Falsy(value) == value = None \/ value = <<>>

TitleTexts == {NoElem, <<" "," ">>, <<" ","S","e","a"," ","I","c","e"," ","E","x","t","e","n","t"," ">>}

OriginTexts == {<<>>, <<"N","O","A","A">>, <<"S","m","i","t","h",","," ","J","o","h","n">>, <<"J","a","n","e"," ","D","o","e"," ","a","n","d"," ","B","o","b"," ","R","o","e">>, <<"C","h","e","r">>}

RECURSIVE ListsOver(_, _)
ListsOver(texts, n) ==
    IF n = 0 THEN {<<>>}
    ELSE ListsOver(texts, n - 1)
         \cup {Append(l, t) : l \in {x \in ListsOver(texts, n - 1) : Len(x) = n - 1}, t \in texts}

OriginLists == ListsOver(OriginTexts, MaxOrigins)

\* date texts without a date in them
UnusableDateTexts == {NoElem, <<"u","n","k","n","o","w","n">>, <<"a","b","c","d">>, <<"n","/","a">>}

UsableDateTexts == {<<"2","0","0","4">>, <<"1","9","5","0","-","1","9","8","0">>, <<"2","0","0","4","0","3","0","1">>}

PubdateTexts == UnusableDateTexts \cup {<<"2","0","0","4">>, <<"1","9","5","0","-","1","9","8","0">>}

MetdTexts == {NoElem, <<"2","0","0","4","0","3","0","1">>}

AbstractTexts == {NoElem, <<"M","o","n","t","h","l","y"," ","s","e","a"," ","i","c","e"," ","e","x","t","e","n","t",".">>}

PurposeTexts == {NoElem, <<"C","l","i","m","a","t","e"," ","m","o","n","i","t","o","r","i","n","g">>}

SupplinfTexts == {NoElem, <<>>, <<"S","e","e"," ","t","h","e"," ","r","e","p","o","r","t">>}

\* access constraints that are exactly none / open / public
OpenPhrases == {<<"N","o","n","e">>, <<"O","P","E","N">>, <<" ","p","u","b","l","i","c"," ">>}

\* access constraints with "restricted", "by request" or "registration" in them
RestrictedPhrases ==
    {<<"R","e","s","t","r","i","c","t","e","d",","," ","b","y"," ","r","e","q","u","e","s","t"," ","o","n","l","y">>, <<"R","e","g","i","s","t","r","a","t","i","o","n"," ","r","e","q","u","i","r","e","d">>, <<"B","y"," ","R","e","q","u","e","s","t">>, <<"U","n","r","e","s","t","r","i","c","t","e","d">>}

OtherPhrases == {NoElem, <<"C","o","n","t","a","c","t"," ","t","h","e"," ","a","u","t","h","o","r">>}

AccconstTexts == OpenPhrases \cup RestrictedPhrases \cup OtherPhrases

\* use constraints no license pattern matches
NoLicenseTexts == {NoElem, <<"C","i","t","e"," ","t","h","e"," ","a","u","t","h","o","r","s">>, <<"N","o","n","e">>, <<"N","/","A">>}

LicensedTexts ==
    {<<"P","u","b","l","i","c"," ","D","o","m","a","i","n">>, <<"C","C","-","B","Y"," ","4",".","0">>, <<"C","C"," ","B","Y","-","S","A"," ","4",".","0">>, <<"M","I","T"," ","L","i","c","e","n","s","e">>, <<"D","a","t","a"," ","a","r","e"," ","f","r","e","e","l","y"," ","a","v","a","i","l","a","b","l","e">>}

UseconstTexts == NoLicenseTexts \cup LicensedTexts

ClassifiedTexts == {<<"R","e","s","t","r","i","c","t","e","d">>, <<"S","E","C","R","E","T">>}

SecclassTexts == {NoElem, <<"U","n","c","l","a","s","s","i","f","i","e","d">>} \cup ClassifiedTexts

SechandlTexts == {NoElem, <<"N","e","e","d"," ","t","o"," ","k","n","o","w">>}

FeesTexts == {NoElem, <<"N","o","n","e">>}

\* trees that vary the sources of the required fields
RequiredRoots ==
    {[title |-> t, origin |-> o, pubdate |-> p, metd |-> m, abstract |-> a,
      purpose |-> pu, supplinf |-> su, accconst |-> NoElem, useconst |-> NoElem,
      secclass |-> NoElem, sechandl |-> NoElem, fees |-> NoElem] :
        t \in TitleTexts, o \in OriginLists, p \in PubdateTexts, m \in MetdTexts,
        a \in AbstractTexts, pu \in PurposeTexts, su \in SupplinfTexts}

\* trees with every required field present that vary the access, license,
\* security and distribution sources
OptionalRoots ==
    {[title |-> <<"S","e","a"," ","I","c","e"," ","E","x","t","e","n","t">>, origin |-> <<<<"N","O","A","A">>>>, pubdate |-> <<"2","0","0","4">>,
      metd |-> NoElem, abstract |-> <<"M","o","n","t","h","l","y"," ","s","e","a"," ","i","c","e"," ","e","x","t","e","n","t",".">>,
      purpose |-> NoElem, supplinf |-> NoElem, accconst |-> ac, useconst |-> uc,
      secclass |-> sc, sechandl |-> sh, fees |-> fe] :
        ac \in AccconstTexts, uc \in UseconstTexts, sc \in SecclassTexts,
        sh \in SechandlTexts, fe \in FeesTexts}

CurrentTexts == {NoElem, <<"p","u","b","l","i","c","a","t","i","o","n"," ","d","a","t","e">>}

BegdateTexts == {NoElem, <<"1","9","9","7">>, <<"u","n","k","n","o","w","n">>}

EnddateTexts == {NoElem, <<"2","0","0","2">>, <<"u","n","k","n","o","w","n">>}

SngdateTexts == {NoElem, <<"2","0","0","4","0","3","0","1">>}

\* longitudes of the trees: east and west of the dateline, above 180, and
\* a text that is no number
LongitudeTexts == {NoElem, <<"1","7","0">>, <<"-","1","7","0">>, <<"1","9","0">>, <<"e","a","s","t">>}

NorthTexts == {<<"6","0">>}

SouthTexts == {<<"4","0">>}

ProgressTexts == {NoElem, <<"C","o","m","p","l","e","t","e">>}

\* a tree without the elements of the time period, the bounding box and the status
NoCoverage ==
    [current |-> NoElem, begdate |-> NoElem, enddate |-> NoElem, sngdate |-> NoElem,
     westbc |-> NoElem, eastbc |-> NoElem, northbc |-> NoElem, southbc |-> NoElem,
     progress |-> NoElem, update |-> NoElem]

\* trees with every required field present that vary the time period, the
\* bounding box and the sources of the notes
CoverageRoots ==
    {[title |-> <<"S","e","a"," ","I","c","e"," ","E","x","t","e","n","t">>, origin |-> <<<<"N","O","A","A">>>>, pubdate |-> <<"2","0","0","4">>,
      metd |-> NoElem, abstract |-> <<"M","o","n","t","h","l","y"," ","s","e","a"," ","i","c","e"," ","e","x","t","e","n","t",".">>,
      purpose |-> pu, supplinf |-> NoElem, accconst |-> NoElem, useconst |-> NoElem,
      secclass |-> NoElem, sechandl |-> NoElem, fees |-> NoElem,
      current |-> cu, begdate |-> bd, enddate |-> ed, sngdate |-> sd,
      westbc |-> w, eastbc |-> e, northbc |-> n, southbc |-> so,
      progress |-> pr, update |-> NoElem] :
        pu \in PurposeTexts, cu \in CurrentTexts, bd \in BegdateTexts, ed \in EnddateTexts,
        sd \in SngdateTexts, w \in LongitudeTexts, e \in LongitudeTexts,
        n \in NorthTexts, so \in SouthTexts, pr \in ProgressTexts}

\* the trees in which a construction starts
IsRoot(tree) ==
    \/ \E r \in RequiredRoots : tree = r @@ NoCoverage
    \/ \E r \in OptionalRoots : tree = r @@ NoCoverage
    \/ tree \in CoverageRoots

Init ==
    /\ pc = "title"
    /\ IsRoot(root)
    /\ now_year \in NowYears
    /\ metadata = Unbound
    /\ ret = Pending
    /\ frame = <<>>
    /\ warnings = <<>>
    /\ errors = <<>>
    /\ date_formats = <<>>
    /\ license_detected = 0
    /\ bbox_issues = <<>>
    /\ validation_results = <<>>
    /\ clock = 0
    /\ returned = <<>>
    /\ arg = None

\* the diagnostics of one call reach the two lists of the logger
Logged(log) ==
    /\ warnings' = warnings \o WarningsOf(log)
    /\ errors' = errors \o ErrorsOf(log)

\* `return None` out of _build_zenodo_metadata
ReturnNone ==
    /\ ret' = None
    /\ pc' = "done"
    /\ frame' = frame

\* a required field is resolved: keep it and go on with the next step
Resolved(name, value, next) ==
    /\ frame' = Put(frame, name, value)
    /\ pc' = next
    /\ ret' = ret

\* `if not x: return None`, after the diagnostics of the call that made x
RequiredField(name, r, next) ==
    /\ Logged(r.log)
    /\ IF Falsy(r.ret) THEN ReturnNone ELSE Resolved(name, r.ret, next)

\* lines 123-125
ExtractTitle ==
    /\ pc = "title"
    /\ RequiredField("title", _extract_title(root), "creators")
    /\ UNCHANGED <<root, metadata, date_formats, license_detected, arg, now_year, bbox_issues, validation_results, clock, returned>>

\* variant: an empty creator list does not stop the construction
RequiredCreators_NoAbort(r) ==
    /\ Logged(r.log)
    /\ Resolved("creators", r.ret, "publication_date")

\* `if not creators: return None`
RequiredCreators(r) ==
    /\ Logged(r.log)
    /\ IF Len(r.ret) = 0 THEN ReturnNone ELSE Resolved("creators", r.ret, "publication_date")

\* lines 127-129
ExtractCreators ==
    /\ pc = "creators"
    /\ RequiredCreators(_extract_creators(root))
    /\ UNCHANGED <<root, metadata, date_formats, license_detected, arg, now_year, bbox_issues, validation_results, clock, returned>>

\* the tokens handed to record_date_format
RecordedDates(r) == date_formats' = date_formats \o r.dates

\* lines 131-133
ExtractPublicationDate ==
    /\ pc = "publication_date"
    /\ RequiredField("publication_date", _extract_publication_date(root, now_year), "description")
    /\ RecordedDates(_extract_publication_date(root, now_year))
    /\ UNCHANGED <<root, metadata, license_detected, arg, now_year, bbox_issues, validation_results, clock, returned>>

\* lines 135-137
ExtractDescription ==
    /\ pc = "description"
    /\ RequiredField("description", _extract_description(root), "base")
    /\ UNCHANGED <<root, metadata, date_formats, license_detected, arg, now_year, bbox_issues, validation_results, clock, returned>>

\* lines 140-154
BuildBaseMetadata ==
    /\ pc = "base"
    /\ metadata' = [title |-> frame.title,
                    upload_type |-> "dataset",
                    publication_date |-> frame.publication_date,
                    creators |-> frame.creators,
                    description |-> frame.description,
                    access_right |-> "open",
                    license |-> DefaultLicense,
                    keywords |-> <<>>,
                    notes |-> <<>>,
                    related_identifiers |-> <<>>,
                    contributors |-> <<>>,
                    references |-> <<>>,
                    communities |-> <<[identifier |-> "pices"]>>]
    /\ pc' = "access_constraints"
    /\ UNCHANGED <<root, ret, frame, warnings, errors, date_formats, license_detected, arg, now_year, bbox_issues, validation_results, clock, returned>>

\* the effects of _extract_access_constraints on the record and the logger
AccessConstraintsApplied(r) ==
    /\ metadata' = r.md
    /\ Logged(r.log)
    /\ license_detected' = license_detected + r.detected

\* line 700
ExtractAccessConstraints ==
    /\ pc = "access_constraints"
    /\ AccessConstraintsApplied(_extract_access_constraints(metadata, root))
    /\ pc' = "temporal_coverage"
    /\ UNCHANGED <<root, ret, frame, date_formats, arg, now_year, bbox_issues, validation_results, clock, returned>>

\* the effects of _extract_temporal_coverage on the record and the logger
TemporalApplied(r) ==
    /\ metadata' = r.md
    /\ Logged(r.log)
    /\ date_formats' = date_formats \o r.dates

\* line 703
ExtractTemporalCoverage ==
    /\ pc = "temporal_coverage"
    /\ TemporalApplied(_extract_temporal_coverage(metadata, root, now_year))
    /\ pc' = "spatial_coverage"
    /\ UNCHANGED <<root, ret, frame, license_detected, arg, now_year, bbox_issues, validation_results, clock, returned>>

\* the effects of _extract_spatial_coverage on the record and the logger
SpatialApplied(r) ==
    /\ metadata' = r.md
    /\ Logged(r.log)
    /\ bbox_issues' = bbox_issues \o r.issues
    /\ UNCHANGED <<validation_results, clock, returned>>

\* line 706
ExtractSpatialCoverage ==
    /\ pc = "spatial_coverage"
    /\ SpatialApplied(_extract_spatial_coverage(metadata, root))
    /\ pc' = "notes"
    /\ UNCHANGED <<root, ret, frame, date_formats, license_detected, arg, now_year>>

\* lines 721-722
BuildNotes ==
    /\ pc = "notes"
    /\ metadata' = Put(metadata, "notes", _build_notes(root))
    /\ pc' = "security_info"
    /\ UNCHANGED <<root, ret, frame, warnings, errors, date_formats, license_detected, arg, now_year, bbox_issues, validation_results, clock, returned>>

\* line 1180
ExtractSecurityInfo ==
    /\ pc = "security_info"
    /\ metadata' = _extract_security_info(metadata, root)
    /\ pc' = "distribution_info"
    /\ UNCHANGED <<root, ret, frame, warnings, errors, date_formats, license_detected, arg, now_year, bbox_issues, validation_results, clock, returned>>

\* line 1192
ExtractDistributionInfo ==
    /\ pc = "distribution_info"
    /\ metadata' = _extract_distribution_info(metadata, root)
    /\ pc' = "metadata_info"
    /\ UNCHANGED <<root, ret, frame, warnings, errors, date_formats, license_detected, arg, now_year, bbox_issues, validation_results, clock, returned>>

\* line 1195
ExtractMetadataInfo ==
    /\ pc = "metadata_info"
    /\ metadata' = _extract_metadata_info(metadata, root)
    /\ pc' = "return"
    /\ UNCHANGED <<root, ret, frame, warnings, errors, date_formats, license_detected, arg, now_year, bbox_issues, validation_results, clock, returned>>

\* line 159
ReturnMetadata ==
    /\ pc = "return"
    /\ ret' = metadata
    /\ pc' = "done"
    /\ UNCHANGED <<root, metadata, frame, warnings, errors, date_formats, license_detected, arg, now_year, bbox_issues, validation_results, clock, returned>>

Next ==
    \/ ExtractTitle
    \/ ExtractCreators
    \/ ExtractPublicationDate
    \/ ExtractDescription
    \/ BuildBaseMetadata
    \/ ExtractAccessConstraints
    \/ ExtractTemporalCoverage
    \/ ExtractSpatialCoverage
    \/ BuildNotes
    \/ ExtractSecurityInfo
    \/ ExtractDistributionInfo
    \/ ExtractMetadataInfo
    \/ ReturnMetadata

Spec == Init /\ [][Next]_vars

\* the steps of _add_optional_fields
OptionalSteps ==
    {"access_constraints", "temporal_coverage", "spatial_coverage", "notes",
     "security_info", "distribution_info", "metadata_info", "return"}

(***************************************************************************)
(* Specification SpecBbox: _extract_spatial_coverage applied to one        *)
(* bounding box                                                            *)
(***************************************************************************)
\* whole longitudes on either side of the dateline, and up to 180 above it
BoxLongitudes == {-180, -170, -10, 0, 10, 170, 179, 180, 181, 190, 350, 360, 370}

\* the text of a whole number in the source
NumberText(x) == (IF x < 0 THEN <<"-">> ELSE <<>>) \o StrOf(IF x < 0 THEN 0 - x ELSE x)

BoxLongitudeTexts == {NumberText(x) : x \in BoxLongitudes} \cup {NoElem, <<"e","a","s","t">>, <<" ","1","7","0"," ">>}

BoxLatitudePairs == {<<<<"6","0">>, <<"4","0">>>>, <<<<"-","4","0">>, <<"-","6","0">>>>, <<<<"n","o","r","t","h">>, <<"4","0">>>>}

\* the notes the earlier steps left
EarlierNotes == {<<>>, <<"T","e","m","p","o","r","a","l"," ","I","n","f","o","r","m","a","t","i","o","n",":">> \o <<"\n">> \o <<"T","e","m","p","o","r","a","l"," ","c","o","v","e","r","a","g","e",":"," ","1","9","9","7","-","0","1","-","0","1">>}

InitBbox ==
    /\ pc = "extract_spatial_coverage"
    /\ root \in {[westbc |-> w, eastbc |-> e, northbc |-> ns[1], southbc |-> ns[2]] :
                    w \in BoxLongitudeTexts, e \in BoxLongitudeTexts, ns \in BoxLatitudePairs}
    /\ metadata \in {[notes |-> n] : n \in EarlierNotes}
    /\ now_year \in NowYears
    /\ ret = Pending
    /\ frame = <<>>
    /\ warnings = <<>>
    /\ errors = <<>>
    /\ date_formats = <<>>
    /\ license_detected = 0
    /\ bbox_issues = <<>>
    /\ validation_results = <<>>
    /\ clock = 0
    /\ returned = <<>>
    /\ arg = None

\* one call _extract_spatial_coverage(metadata, root, file_path)
CallExtractSpatialCoverage ==
    /\ pc = "extract_spatial_coverage"
    /\ SpatialApplied(_extract_spatial_coverage(metadata, root))
    /\ pc' = "bbox_done"
    /\ UNCHANGED <<root, ret, frame, date_formats, license_detected, arg, now_year>>

NextBbox == CallExtractSpatialCoverage

SpecBbox == InitBbox /\ [][NextBbox]_vars

(***************************************************************************)
(* dto.py: the canonical record.  A mapping is a function from its keys;   *)
(* a DTO is a record of the fields of CanonicalRecordDTO.                  *)
(***************************************************************************)
EmptyMapping == <<>>

\* mapping.get(key) and mapping.get(key, default)
GetOr(mapping, key, default) == IF key \in DOMAIN mapping THEN mapping[key] ELSE default

Get(mapping, key) == GetOr(mapping, key, None)

PICES_PUBLISHER == <<"N","o","r","t","h"," ","P","a","c","i","f","i","c"," ","M","a","r","i","n","e"," ","S","c","i","e","n","c","e"," ","O","r","g","a","n","i","z","a","t","i","o","n">>

\* lines 121-123, publisher being zenodo_metadata.get("publisher"), with
\* the guard of line 121 left out and the publisher only filled in
EnforcePublisher_KeepSource(zenodo_metadata, publisher) ==
    IF ~Falsy(publisher)
    THEN zenodo_metadata
    ELSE Put(zenodo_metadata, "publisher", PICES_PUBLISHER)

\* lines 121-123, publisher being zenodo_metadata.get("publisher")
EnforcePublisher(zenodo_metadata, publisher) ==
    IF ~Falsy(publisher) /\ publisher # PICES_PUBLISHER
    THEN Put(Put(zenodo_metadata, "imprint_publisher", publisher), "publisher", PICES_PUBLISHER)
    ELSE Put(zenodo_metadata, "publisher", PICES_PUBLISHER)

__post_init__(zenodo_metadata) ==
    EnforcePublisher(zenodo_metadata, Get(zenodo_metadata, "publisher"))

\* the dataclass constructor: the fields, then __post_init__
CanonicalRecordDTO(fgdc_id, source_path, zenodo_metadata, attachments, bibliographic_links, audit_trail) ==
    [fgdc_id |-> fgdc_id, source_path |-> source_path,
     zenodo_metadata |-> __post_init__(zenodo_metadata),
     attachments |-> attachments, bibliographic_links |-> bibliographic_links,
     audit_trail |-> audit_trail]

\* source_path.rsplit("/", 1)[-1]
RECURSIVE BaseName(_)
BaseName(path) ==
    IF \E i \in 1..Len(path) : path[i] = "/"
    THEN BaseName(Tail(path))
    ELSE path

\* lines 227-228
WithoutXml(base) ==
    IF EndsWith(Lower(base), <<".","x","m","l">>) THEN SubSeq(base, 1, Len(base) - 4) ELSE base

_normalise_fgdc_id(source_path) == WithoutXml(BaseName(source_path))

\* Attachment of a raw mapping, lines 251-255 and 191-195
AttachmentOf(item) ==
    [path |-> GetOr(item, "path", <<>>), description |-> GetOr(item, "description", <<>>),
     file_type |-> GetOr(item, "type", <<>>)]

\* lines 246-256: empty mappings are passed over
RECURSIVE AttachmentObjs(_)
AttachmentObjs(attachments) ==
    IF attachments = <<>> THEN <<>>
    ELSE IF DOMAIN Head(attachments) = {} THEN AttachmentObjs(Tail(attachments))
    ELSE <<AttachmentOf(Head(attachments))>> \o AttachmentObjs(Tail(attachments))

build_canonical_dto(source_path, zenodo_metadata, attachments, bibliographic_links) ==
    CanonicalRecordDTO(_normalise_fgdc_id(source_path), source_path, zenodo_metadata,
                       AttachmentObjs(attachments), bibliographic_links, EmptyMapping)

\* Attachment.to_json
AttachmentJson(attachment) ==
    [path |-> attachment.path, description |-> attachment.description,
     type |-> attachment.file_type]

\* CanonicalRecordDTO.to_json; a BibliographicLink serialises to its fields
to_json(dto) ==
    [fgdc_id |-> dto.fgdc_id, source_path |-> dto.source_path,
     zenodo_metadata |-> dto.zenodo_metadata,
     attachments |-> [i \in 1..Len(dto.attachments) |-> AttachmentJson(dto.attachments[i])],
     bibliographic_links |-> dto.bibliographic_links,
     audit_trail |-> dto.audit_trail]

\* BibliographicLink of a serialised link, lines 199-209
LinkOf(item) ==
    [source |-> GetOr(item, "source", <<>>), identifier |-> GetOr(item, "identifier", <<>>),
     relation |-> GetOr(item, "relation", <<"i","s","A","l","t","e","r","n","a","t","i","v","e","I","d","e","n","t","i","f","i","e","r","O","f">>),
     confidence |-> GetOr(item, "confidence", 0)]

\* the attachments and links of a payload, lines 190-211
PayloadItems(items) == [i \in 1..Len(items) |-> AttachmentOf(items[i])]

PayloadLinks(items) == [i \in 1..Len(items) |-> LinkOf(items[i])]

from_json(payload) ==
    CanonicalRecordDTO(GetOr(payload, "fgdc_id", <<>>), GetOr(payload, "source_path", <<>>),
                       GetOr(payload, "zenodo_metadata", EmptyMapping),
                       PayloadItems(GetOr(payload, "attachments", <<>>)),
                       PayloadLinks(GetOr(payload, "bibliographic_links", <<>>)),
                       GetOr(payload, "audit_trail", EmptyMapping))

\* payload.update(overrides), lines 138-148
Overridden(dto, overrides, field) == GetOr(overrides, field, dto[field])

copy(dto, overrides) ==
    CanonicalRecordDTO(Overridden(dto, overrides, "fgdc_id"),
                       Overridden(dto, overrides, "source_path"),
                       Overridden(dto, overrides, "zenodo_metadata"),
                       Overridden(dto, overrides, "attachments"),
                       Overridden(dto, overrides, "bibliographic_links"),
                       Overridden(dto, overrides, "audit_trail"))

with_attachments(dto, attachments) == copy(dto, [attachments |-> attachments])

with_bibliographic_links(dto, links) == copy(dto, [bibliographic_links |-> links])

\* lines 168-172
with_audit_event(dto, stage, event) ==
    copy(dto, [audit_trail |->
                   Put(dto.audit_trail, stage, Append(GetOr(dto.audit_trail, stage, <<>>), event))])

(***************************************************************************)
(* Specification SpecDto: a DTO is built from a caller's metadata or       *)
(* loaded from a payload, and then cloned and re-loaded.  root is the      *)
(* zenodo_metadata last handed to the constructor by a caller, ret is the  *)
(* DTO and arg counts the operations.                                      *)
(***************************************************************************)
\* operations applied to one DTO
MaxDtoOps == 3

LegacyPublisher == <<"L","e","g","a","c","y"," ","P","u","b","l","i","s","h","e","r">>

SourcePublishers == {NoElem, None, <<>>, PICES_PUBLISHER, LegacyPublisher, <<"P","I","C","E","S">>}

SourceImprints == {NoElem, <<"O","l","d"," ","I","m","p","r","i","n","t">>}

\* a mapping with the keys whose value is there
WithKey(mapping, key, value) == IF value = NoElem THEN mapping ELSE Put(mapping, key, value)

SourceMetadata ==
    {WithKey(WithKey([title |-> <<"S","a","m","p","l","e">>], "publisher", p), "imprint_publisher", i) :
        p \in SourcePublishers, i \in SourceImprints}

SourcePaths == {<<"F","G","D","C","/","s","a","m","p","l","e",".","x","m","l">>, <<"F","G","D","C","-","1",".","X","M","L">>, <<"/","t","m","p","/","r","e","c","o","r","d">>}

RawAttachments ==
    {<<>>,
     <<EmptyMapping, [path |-> <<"/","t","m","p","/","f","i","l","e",".","x","m","l">>, description |-> <<"O","r","i","g","i","n","a","l">>, type |-> <<"f","g","d","c","_","x","m","l">>]>>,
     <<[path |-> <<"/","t","m","p","/","a",".","p","d","f">>]>>}

Link == [source |-> <<"d","a","t","a","c","i","t","e">>, identifier |-> <<"1","0",".","1","2","3","4","/","e","x","a","m","p","l","e">>,
         relation |-> <<"i","s","A","l","t","e","r","n","a","t","i","v","e","I","d","e","n","t","i","f","i","e","r","O","f">>, confidence |-> 91]

LinkLists == {<<>>, <<Link>>}

AttachmentLists == {<<>>, <<AttachmentOf([path |-> <<"/","t","m","p","/","b",".","x","m","l">>, type |-> <<"f","g","d","c","_","x","m","l">>])>>}

AuditStages == {"bibliographic_linkage"}

AuditEvents == {[applied_at |-> <<"2","0","2","5","-","1","0","-","1","5">>]}

\* payloads written by hand: with and without the zenodo_metadata key
HandPayloads(zenodo_metadata) ==
    {[fgdc_id |-> <<"s","a","m","p","l","e">>, zenodo_metadata |-> zenodo_metadata],
     [fgdc_id |-> <<"s","a","m","p","l","e">>, attachments |-> <<[path |-> <<"/","t","m","p","/","a",".","p","d","f">>]>>,
      bibliographic_links |-> <<[identifier |-> <<"1","0",".","1","2","3","4","/","e","x","a","m","p","l","e">>]>>]}

InitDto ==
    /\ pc = "dto_new"
    /\ root \in SourceMetadata
    /\ ret = Pending
    /\ arg = 0
    /\ metadata = Unbound
    /\ now_year \in NowYears
    /\ frame = <<>>
    /\ warnings = <<>>
    /\ errors = <<>>
    /\ date_formats = <<>>
    /\ license_detected = 0
    /\ bbox_issues = <<>>
    /\ validation_results = <<>>
    /\ clock = 0
    /\ returned = <<>>

DtoFrame == <<metadata, frame, warnings, errors, date_formats, license_detected, now_year, bbox_issues, validation_results, clock, returned>>

BuildCanonicalDto ==
    /\ pc = "dto_new"
    /\ \E source_path \in SourcePaths, attachments \in RawAttachments, links \in LinkLists :
           ret' = build_canonical_dto(source_path, root, attachments, links)
    /\ pc' = "dto"
    /\ arg' = 1
    /\ UNCHANGED root
    /\ UNCHANGED DtoFrame

LoadPayload ==
    /\ pc = "dto_new"
    /\ \E payload \in HandPayloads(root) :
           /\ ret' = from_json(payload)
           /\ root' = GetOr(payload, "zenodo_metadata", EmptyMapping)
    /\ pc' = "dto"
    /\ arg' = 1
    /\ UNCHANGED DtoFrame

\* the DTO is saved and loaded again: from_json(to_json(dto))
Reload ==
    /\ pc = "dto" /\ arg < MaxDtoOps
    /\ ret' = from_json(to_json(ret))
    /\ arg' = arg + 1
    /\ UNCHANGED <<pc, root>>
    /\ UNCHANGED DtoFrame

Copy ==
    /\ pc = "dto" /\ arg < MaxDtoOps
    /\ ret' = copy(ret, EmptyMapping)
    /\ arg' = arg + 1
    /\ UNCHANGED <<pc, root>>
    /\ UNCHANGED DtoFrame

\* copy(zenodo_metadata=...): the caller hands over other metadata
CopyWithMetadata ==
    /\ pc = "dto" /\ arg < MaxDtoOps
    /\ \E zenodo_metadata \in SourceMetadata :
           /\ ret' = copy(ret, [zenodo_metadata |-> zenodo_metadata])
           /\ root' = zenodo_metadata
    /\ arg' = arg + 1
    /\ UNCHANGED pc
    /\ UNCHANGED DtoFrame

WithAttachments ==
    /\ pc = "dto" /\ arg < MaxDtoOps
    /\ \E attachments \in AttachmentLists : ret' = with_attachments(ret, attachments)
    /\ arg' = arg + 1
    /\ UNCHANGED <<pc, root>>
    /\ UNCHANGED DtoFrame

WithBibliographicLinks ==
    /\ pc = "dto" /\ arg < MaxDtoOps
    /\ \E links \in LinkLists : ret' = with_bibliographic_links(ret, links)
    /\ arg' = arg + 1
    /\ UNCHANGED <<pc, root>>
    /\ UNCHANGED DtoFrame

WithAuditEvent ==
    /\ pc = "dto" /\ arg < MaxDtoOps
    /\ \E stage \in AuditStages, event \in AuditEvents :
           ret' = with_audit_event(ret, stage, event)
    /\ arg' = arg + 1
    /\ UNCHANGED <<pc, root>>
    /\ UNCHANGED DtoFrame

NextDto ==
    \/ BuildCanonicalDto
    \/ LoadPayload
    \/ Reload
    \/ Copy
    \/ CopyWithMetadata
    \/ WithAttachments
    \/ WithBibliographicLinks
    \/ WithAuditEvent

SpecDto == InitDto /\ [][NextDto]_vars

(***************************************************************************)
(* Specification SpecTitle: _extract_title applied to one title element    *)
(***************************************************************************)
\* title lengths tried on either side of TitleLimit
TitleSpan == 12

\* a title of n characters, with different characters at neighbouring places
TitleOfLength(n) == [i \in 1..n |-> LowerChars[((i - 1) % 26) + 1]]

TitleLengths ==
    {1, 2, 10, TitleLimit + 10} \cup ((TitleLimit - TitleSpan)..(TitleLimit + TitleSpan))

TitleElems ==
    {NoElem, <<>>, <<" "," "," ">>} \cup Padded({TitleOfLength(n) : n \in TitleLengths})

InitTitle ==
    /\ pc = "extract_title"
    /\ root \in {[title |-> t] : t \in TitleElems}
    /\ now_year \in NowYears
    /\ metadata = Unbound
    /\ ret = Pending
    /\ frame = <<>>
    /\ warnings = <<>>
    /\ errors = <<>>
    /\ date_formats = <<>>
    /\ license_detected = 0
    /\ bbox_issues = <<>>
    /\ validation_results = <<>>
    /\ clock = 0
    /\ returned = <<>>
    /\ arg = None

\* the value and the diagnostics of a call
Returned(r) ==
    /\ ret' = r.ret
    /\ Logged(r.log)

\* one call _extract_title(root, file_path)
CallExtractTitle ==
    /\ pc = "extract_title"
    /\ Returned(_extract_title(root))
    /\ pc' = "title_done"
    /\ UNCHANGED <<root, metadata, frame, date_formats, license_detected, arg, now_year, bbox_issues, validation_results, clock, returned>>

NextTitle == CallExtractTitle

SpecTitle == InitTitle /\ [][NextTitle]_vars

(***************************************************************************)
(* JSON values as Python holds them: a value carries its type.  The keys   *)
(* of a mapping are texts; a mapping is iterated in the order of KeyOrder, *)
(* the order in which the records of the model are written.                *)
(***************************************************************************)
PyStr(text) == [type |-> "str", value |-> text]

PyInt(n) == [type |-> "int", value |-> n]

PyList(items) == [type |-> "list", value |-> items]

PyDict(mapping) == [type |-> "dict", value |-> mapping]

PyNone == [type |-> "NoneType", value |-> <<>>]

\* bool(value)
Truthy(v) ==
    CASE v.type = "str" -> v.value # <<>>
      [] v.type = "int" -> v.value # 0
      [] v.type = "list" -> v.value # <<>>
      [] v.type = "dict" -> DOMAIN v.value # {}
      [] OTHER -> FALSE

\* type(value).__name__
TypeText(v) ==
    CASE v.type = "str" -> <<"s","t","r">>
      [] v.type = "int" -> <<"i","n","t">>
      [] v.type = "list" -> <<"l","i","s","t">>
      [] v.type = "dict" -> <<"d","i","c","t">>
      [] OTHER -> <<"N","o","n","e","T","y","p","e">>

\* a string that is one of the given texts
IsOneOf(v, texts) == v.type = "str" /\ v.value \in texts

\* Zenodo fields first (all_zenodo_fields, lines 47-57), then the keys of compound entries
all_zenodo_fields ==
    <<<<"t","i","t","l","e">>, <<"u","p","l","o","a","d","_","t","y","p","e">>, <<"p","u","b","l","i","c","a","t","i","o","n","_","d","a","t","e">>, <<"c","r","e","a","t","o","r","s">>, <<"d","e","s","c","r","i","p","t","i","o","n">>, <<"a","c","c","e","s","s","_","r","i","g","h","t">>,
      <<"l","i","c","e","n","s","e">>, <<"c","o","m","m","u","n","i","t","i","e","s">>, <<"k","e","y","w","o","r","d","s">>, <<"n","o","t","e","s">>, <<"r","e","l","a","t","e","d","_","i","d","e","n","t","i","f","i","e","r","s">>, <<"c","o","n","t","r","i","b","u","t","o","r","s">>,
      <<"r","e","f","e","r","e","n","c","e","s">>, <<"s","u","b","j","e","c","t","s">>, <<"g","r","a","n","t","s">>, <<"l","o","c","a","t","i","o","n","s">>, <<"d","a","t","e","s">>, <<"m","e","t","h","o","d">>, <<"a","c","c","e","s","s","_","c","o","n","d","i","t","i","o","n","s">>,
      <<"e","m","b","a","r","g","o","_","d","a","t","e">>, <<"v","e","r","s","i","o","n">>, <<"l","a","n","g","u","a","g","e">>, <<"i","m","p","r","i","n","t","_","p","u","b","l","i","s","h","e","r">>, <<"i","m","p","r","i","n","t","_","p","l","a","c","e">>, <<"i","m","p","r","i","n","t","_","i","s","b","n">>,
      <<"p","a","r","t","o","f","_","t","i","t","l","e">>, <<"p","a","r","t","o","f","_","p","a","g","e","s">>, <<"j","o","u","r","n","a","l","_","t","i","t","l","e">>, <<"j","o","u","r","n","a","l","_","v","o","l","u","m","e">>, <<"j","o","u","r","n","a","l","_","i","s","s","u","e">>,
      <<"j","o","u","r","n","a","l","_","p","a","g","e","s">>, <<"c","o","n","f","e","r","e","n","c","e","_","t","i","t","l","e">>, <<"c","o","n","f","e","r","e","n","c","e","_","a","c","r","o","n","y","m">>, <<"c","o","n","f","e","r","e","n","c","e","_","d","a","t","e","s">>,
      <<"c","o","n","f","e","r","e","n","c","e","_","p","l","a","c","e">>, <<"c","o","n","f","e","r","e","n","c","e","_","u","r","l">>, <<"c","o","n","f","e","r","e","n","c","e","_","s","e","s","s","i","o","n">>, <<"c","o","n","f","e","r","e","n","c","e","_","s","e","s","s","i","o","n","_","p","a","r","t">>,
      <<"t","h","e","s","i","s","_","s","u","p","e","r","v","i","s","o","r","s">>, <<"t","h","e","s","i","s","_","u","n","i","v","e","r","s","i","t","y">>>>

KeyOrder ==
    all_zenodo_fields \o
    <<<<"n","a","m","e">>, <<"a","f","f","i","l","i","a","t","i","o","n">>, <<"o","r","c","i","d">>, <<"t","y","p","e">>, <<"r","o","l","e">>, <<"i","d","e","n","t","i","f","i","e","r">>, <<"r","e","l","a","t","i","o","n">>,
      <<"s","c","h","e","m","e">>, <<"m","e","t","a","d","a","t","a">>>>

\* list(mapping)
Keys(mapping) == SelectSeq(KeyOrder, LAMBDA k : k \in DOMAIN mapping)

\* a mapping of one key, and of two
Entry(key, value) == [k \in {key} |-> value]

IntText(n) == IF n < 0 THEN <<"-">> \o StrOf(0 - n) ELSE StrOf(n)

\* repr(value) and str(value)
RECURSIVE Repr(_), ReprItems(_), ReprPairs(_, _)
Repr(v) ==
    CASE v.type = "str" -> <<"'">> \o v.value \o <<"'">>
      [] v.type = "int" -> IntText(v.value)
      [] v.type = "list" -> <<"[">> \o ReprItems(v.value) \o <<"]">>
      [] v.type = "dict" -> <<"{">> \o ReprPairs(v.value, Keys(v.value)) \o <<"}">>
      [] OTHER -> <<"N","o","n","e">>

ReprItems(items) ==
    IF items = <<>> THEN <<>>
    ELSE IF Len(items) = 1 THEN Repr(items[1])
    ELSE Repr(items[1]) \o <<","," ">> \o ReprItems(Tail(items))

ReprPairs(mapping, keys) ==
    IF keys = <<>> THEN <<>>
    ELSE <<"'">> \o keys[1] \o <<"'",":"," ">> \o Repr(mapping[keys[1]])
         \o (IF Len(keys) = 1 THEN <<>> ELSE <<","," ">> \o ReprPairs(mapping, Tail(keys)))

Format(v) == IF v.type = "str" THEN v.value ELSE Repr(v)

\* str(e) of the AttributeError of value.attr
AttributeError(v, attr) ==
    <<"'">> \o TypeText(v) \o <<"'"," ","o","b","j","e","c","t"," ","h","a","s"," ","n","o"," ","a","t","t","r","i","b","u","t","e"," ","'">> \o attr \o <<"'">>

\* str(e) of the TypeError of `x in value` and of iterating value
NotIterableArgument(v) == <<"a","r","g","u","m","e","n","t"," ","o","f"," ","t","y","p","e"," ","'">> \o TypeText(v) \o <<"'"," ","i","s"," ","n","o","t"," ","i","t","e","r","a","b","l","e">>

NotIterable(v) == <<"'">> \o TypeText(v) \o <<"'"," ","o","b","j","e","c","t"," ","i","s"," ","n","o","t"," ","i","t","e","r","a","b","l","e">>

(***************************************************************************)
(* validate_zenodo.py: ZenodoValidator.  A validation in progress is a     *)
(* record st of the metadata object, the issues and warnings and the       *)
(* snapshots gathered so far, and the text of the exception raised (or     *)
(* <<>>).                                                                  *)
(***************************************************************************)
required_fields ==
    <<<<"t","i","t","l","e">>, <<"u","p","l","o","a","d","_","t","y","p","e">>, <<"p","u","b","l","i","c","a","t","i","o","n","_","d","a","t","e">>, <<"c","r","e","a","t","o","r","s">>, <<"d","e","s","c","r","i","p","t","i","o","n">>, <<"a","c","c","e","s","s","_","r","i","g","h","t">>>>

required_creator_fields == <<<<"n","a","m","e">>>>

valid_upload_types ==
    {<<"p","u","b","l","i","c","a","t","i","o","n">>, <<"p","o","s","t","e","r">>, <<"p","r","e","s","e","n","t","a","t","i","o","n">>, <<"d","a","t","a","s","e","t">>, <<"i","m","a","g","e">>, <<"v","i","d","e","o">>,
     <<"s","o","f","t","w","a","r","e">>, <<"l","e","s","s","o","n">>, <<"p","h","y","s","i","c","a","l","o","b","j","e","c","t">>, <<"o","t","h","e","r">>}

valid_access_rights == {<<"o","p","e","n">>, <<"e","m","b","a","r","g","o","e","d">>, <<"r","e","s","t","r","i","c","t","e","d">>, <<"c","l","o","s","e","d">>}

valid_relations ==
    {<<"i","s","C","i","t","e","d","B","y">>, <<"c","i","t","e","s">>, <<"i","s","S","u","p","p","l","e","m","e","n","t","T","o">>, <<"i","s","S","u","p","p","l","e","m","e","n","t","e","d","B","y">>, <<"i","s","C","o","n","t","i","n","u","e","d","B","y">>,
     <<"c","o","n","t","i","n","u","e","s">>, <<"i","s","D","e","s","c","r","i","b","e","d","B","y">>, <<"d","e","s","c","r","i","b","e","s">>, <<"h","a","s","M","e","t","a","d","a","t","a">>, <<"i","s","M","e","t","a","d","a","t","a","F","o","r">>,
     <<"i","s","N","e","w","V","e","r","s","i","o","n","O","f">>, <<"i","s","P","r","e","v","i","o","u","s","V","e","r","s","i","o","n","O","f">>, <<"i","s","P","a","r","t","O","f">>, <<"h","a","s","P","a","r","t">>, <<"i","s","R","e","f","e","r","e","n","c","e","d","B","y">>,
     <<"r","e","f","e","r","e","n","c","e","s">>, <<"i","s","D","o","c","u","m","e","n","t","e","d","B","y">>, <<"d","o","c","u","m","e","n","t","s">>, <<"i","s","C","o","m","p","i","l","e","d","B","y">>, <<"c","o","m","p","i","l","e","s">>,
     <<"i","s","V","a","r","i","a","n","t","F","o","r","m","O","f">>, <<"i","s","O","r","i","g","i","n","a","l","F","o","r","m","o","f">>, <<"i","s","I","d","e","n","t","i","c","a","l","T","o">>, <<"i","s","A","l","t","e","r","n","a","t","e","I","d","e","n","t","i","f","i","e","r">>,
     <<"i","s","R","e","v","i","e","w","e","d","B","y">>, <<"r","e","v","i","e","w","s">>, <<"i","s","D","e","r","i","v","e","d","F","r","o","m">>, <<"i","s","S","o","u","r","c","e","O","f">>, <<"r","e","q","u","i","r","e","s">>,
     <<"i","s","R","e","q","u","i","r","e","d","B","y">>, <<"i","s","O","b","s","o","l","e","t","e","d","B","y">>, <<"o","b","s","o","l","e","t","e","s">>}

\* field_limits.items(), lines 60-86
field_limits ==
    <<<<<<"t","i","t","l","e">>, 250>>, <<<<"d","e","s","c","r","i","p","t","i","o","n">>, 10000>>, <<<<"n","o","t","e","s">>, 20000>>, <<<<"m","e","t","h","o","d">>, 20000>>,
      <<<<"a","c","c","e","s","s","_","c","o","n","d","i","t","i","o","n","s">>, 20000>>, <<<<"v","e","r","s","i","o","n">>, 50>>, <<<<"l","a","n","g","u","a","g","e">>, 10>>, <<<<"l","i","c","e","n","s","e">>, 50>>,
      <<<<"i","m","p","r","i","n","t","_","p","u","b","l","i","s","h","e","r">>, 250>>, <<<<"i","m","p","r","i","n","t","_","p","l","a","c","e">>, 250>>, <<<<"i","m","p","r","i","n","t","_","i","s","b","n">>, 50>>,
      <<<<"p","a","r","t","o","f","_","t","i","t","l","e">>, 250>>, <<<<"p","a","r","t","o","f","_","p","a","g","e","s">>, 50>>, <<<<"j","o","u","r","n","a","l","_","t","i","t","l","e">>, 250>>,
      <<<<"j","o","u","r","n","a","l","_","v","o","l","u","m","e">>, 50>>, <<<<"j","o","u","r","n","a","l","_","i","s","s","u","e">>, 50>>, <<<<"j","o","u","r","n","a","l","_","p","a","g","e","s">>, 50>>,
      <<<<"c","o","n","f","e","r","e","n","c","e","_","t","i","t","l","e">>, 250>>, <<<<"c","o","n","f","e","r","e","n","c","e","_","a","c","r","o","n","y","m">>, 50>>, <<<<"c","o","n","f","e","r","e","n","c","e","_","d","a","t","e","s">>, 50>>,
      <<<<"c","o","n","f","e","r","e","n","c","e","_","p","l","a","c","e">>, 250>>, <<<<"c","o","n","f","e","r","e","n","c","e","_","u","r","l">>, 500>>, <<<<"c","o","n","f","e","r","e","n","c","e","_","s","e","s","s","i","o","n">>, 50>>,
      <<<<"c","o","n","f","e","r","e","n","c","e","_","s","e","s","s","i","o","n","_","p","a","r","t">>, 50>>, <<<<"t","h","e","s","i","s","_","u","n","i","v","e","r","s","i","t","y">>, 250>>>>

\* array_limits.items(), lines 89-101
array_limits ==
    <<<<<<"c","r","e","a","t","o","r","s">>, 1000>>, <<<<"c","o","n","t","r","i","b","u","t","o","r","s">>, 1000>>, <<<<"k","e","y","w","o","r","d","s">>, 100>>,
      <<<<"r","e","l","a","t","e","d","_","i","d","e","n","t","i","f","i","e","r","s">>, 100>>, <<<<"r","e","f","e","r","e","n","c","e","s">>, 1000>>, <<<<"s","u","b","j","e","c","t","s">>, 100>>,
      <<<<"g","r","a","n","t","s">>, 100>>, <<<<"l","o","c","a","t","i","o","n","s">>, 100>>, <<<<"d","a","t","e","s">>, 100>>, <<<<"c","o","m","m","u","n","i","t","i","e","s">>, 10>>,
      <<<<"t","h","e","s","i","s","_","s","u","p","e","r","v","i","s","o","r","s">>, 100>>>>

\* table.get(field, default) of a table of (field, limit) pairs
LimitOr(table, field, default) ==
    IF \E i \in 1..Len(table) : table[i][1] = field
    THEN table[CHOOSE i \in 1..Len(table) : table[i][1] = field][2]
    ELSE default

HasLimit(table, field) == \E i \in 1..Len(table) : table[i][1] = field

Issue(st, text) == [st EXCEPT !.issues = Append(@, text)]

Warn(st, text) == [st EXCEPT !.warnings = Append(@, text)]

Raise(st, text) == [st EXCEPT !.raised = text]

\* the next statement runs unless an exception is on its way out
Try(F(_), st) == IF st.raised # <<>> THEN st ELSE F(st)

\* metadata.get(field, default) of the metadata object, a dict from line 120 on
Field(st, field, default) == GetOr(st.metadata.value, field, default)

HasField(st, field) == field \in DOMAIN st.metadata.value

\* lines 123-127
RECURSIVE RequiredFieldsFrom(_, _)
RequiredFieldsFrom(st, fields) ==
    IF fields = <<>> THEN st
    ELSE RequiredFieldsFrom(
             IF ~HasField(st, Head(fields))
             THEN Issue(st, <<"M","i","s","s","i","n","g"," ","r","e","q","u","i","r","e","d"," ","f","i","e","l","d",":"," ">> \o Head(fields))
             ELSE IF ~Truthy(st.metadata.value[Head(fields)])
             THEN Issue(st, <<"E","m","p","t","y"," ","r","e","q","u","i","r","e","d"," ","f","i","e","l","d",":"," ">> \o Head(fields))
             ELSE st,
             Tail(fields))

RequiredFieldsChecked(st) == RequiredFieldsFrom(st, required_fields)

TitleChecked(st, title) ==
    IF ~Truthy(title) THEN Issue(st, <<"T","i","t","l","e"," ","i","s"," ","e","m","p","t","y"," ","o","r"," ","m","i","s","s","i","n","g">>)
    ELSE IF title.type # "str" THEN Raise(st, AttributeError(title, <<"s","t","r","i","p">>))
    ELSE IF Strip(title.value) = <<>> THEN Issue(st, <<"T","i","t","l","e"," ","i","s"," ","e","m","p","t","y"," ","o","r"," ","m","i","s","s","i","n","g">>)
    ELSE IF Len(title.value) > 200
    THEN Warn(st, <<"T","i","t","l","e"," ","i","s"," ","v","e","r","y"," ","l","o","n","g"," ","(">> \o StrOf(Len(title.value)) \o <<" ","c","h","a","r","a","c","t","e","r","s",")">>)
    ELSE st

\* variant: the title is stored back without its surrounding blanks
_validate_title_Stripping(st) ==
    IF HasField(st, <<"t","i","t","l","e">>) /\ st.metadata.value[<<"t","i","t","l","e">>].type = "str"
    THEN TitleChecked([st EXCEPT !.metadata.value[<<"t","i","t","l","e">>].value = Strip(@)],
                      Field(st, <<"t","i","t","l","e">>, PyStr(<<>>)))
    ELSE TitleChecked(st, Field(st, <<"t","i","t","l","e">>, PyStr(<<>>)))

_validate_title(st) == TitleChecked(st, Field(st, <<"t","i","t","l","e">>, PyStr(<<>>)))

UploadTypeChecked(st, upload_type) ==
    IF ~IsOneOf(upload_type, valid_upload_types)
    THEN Issue(st, <<"I","n","v","a","l","i","d"," ","u","p","l","o","a","d","_","t","y","p","e",":"," ">> \o Format(upload_type))
    ELSE st

_validate_upload_type(st) == UploadTypeChecked(st, Field(st, <<"u","p","l","o","a","d","_","t","y","p","e">>, PyStr(<<>>)))

\* re.match(r'^\d{4}-\d{2}-\d{2}$', pub_date)
IsoDateMatch(s) ==
    \/ IsoShaped(s)
    \/ Len(s) = 11 /\ s[11] = "\n" /\ IsoShaped(SubSeq(s, 1, 10))

\* lines 201-211; dateutil raises TypeError for what is no string
PublicationDateChecked(st, pub_date) ==
    IF ~Truthy(pub_date) THEN Issue(st, <<"P","u","b","l","i","c","a","t","i","o","n"," ","d","a","t","e"," ","i","s"," ","m","i","s","s","i","n","g">>)
    ELSE IF pub_date.type # "str" \/ ~dateutil_parse(pub_date.value).ok
    THEN Issue(st, <<"I","n","v","a","l","i","d"," ","p","u","b","l","i","c","a","t","i","o","n"," ","d","a","t","e"," ","f","o","r","m","a","t",":"," ">> \o Format(pub_date))
    ELSE IF ~IsoDateMatch(pub_date.value)
    THEN Warn(st, <<"P","u","b","l","i","c","a","t","i","o","n"," ","d","a","t","e"," ","n","o","t"," ","i","n"," ","Y","Y","Y","Y","-","M","M","-","D","D"," ","f","o","r","m","a","t",":"," ">> \o pub_date.value)
    ELSE st

_validate_publication_date(st) ==
    PublicationDateChecked(st, Field(st, <<"p","u","b","l","i","c","a","t","i","o","n","_","d","a","t","e">>, PyStr(<<>>)))

\* what enumerate(value) goes through: the items of a list, the characters
\* of a string, the keys of a dict
Items(v) ==
    CASE v.type = "list" -> v.value
      [] v.type = "str" -> [i \in 1..Len(v.value) |-> PyStr(<<v.value[i]>>)]
      [] v.type = "dict" -> [i \in 1..Len(Keys(v.value)) |-> PyStr(Keys(v.value)[i])]
      [] OTHER -> <<>>

Iterable(v) == v.type \in {"list", "str", "dict"}

\* f"{what} {i+1}", i being the 0-based index of enumerate
Numbered(what, n) == what \o <<" ">> \o StrOf(n)

\* lines 225-229
RECURSIVE CreatorFieldsFrom(_, _, _, _)
CreatorFieldsFrom(st, creator, n, fields) ==
    IF fields = <<>> THEN st
    ELSE CreatorFieldsFrom(
             IF Head(fields) \notin DOMAIN creator.value
             THEN Issue(st, Numbered(<<"C","r","e","a","t","o","r">>, n) \o <<" ","m","i","s","s","i","n","g"," ","r","e","q","u","i","r","e","d"," ","f","i","e","l","d",":"," ">> \o Head(fields))
             ELSE IF ~Truthy(creator.value[Head(fields)])
             THEN Issue(st, Numbered(<<"C","r","e","a","t","o","r">>, n) \o <<" ","h","a","s"," ","e","m","p","t","y"," ">> \o Head(fields))
             ELSE st,
             creator, n, Tail(fields))

\* ',' in name
HasComma(name) ==
    CASE name.type = "str" -> \E i \in 1..Len(name.value) : name.value[i] = ","
      [] name.type = "list" ->
             \E i \in 1..Len(name.value) :
                 name.value[i].type = "str" /\ name.value[i].value = <<",">>
      [] name.type = "dict" -> <<",">> \in DOMAIN name.value
      [] OTHER -> FALSE

\* lines 232-234
CreatorNameChecked(st, name, n) ==
    IF ~Truthy(name) THEN st
    ELSE IF ~Iterable(name) THEN Raise(st, NotIterableArgument(name))
    ELSE IF ~HasComma(name)
    THEN Warn(st, Numbered(<<"C","r","e","a","t","o","r">>, n) \o <<" ","n","a","m","e"," ","n","o","t"," ","i","n"," ","'","F","a","m","i","l","y",","," ","G","i","v","e","n","'"," ","f","o","r","m","a","t",":"," ">> \o Format(name))
    ELSE st

valid_creator_fields == {<<"n","a","m","e">>, <<"a","f","f","i","l","i","a","t","i","o","n">>, <<"o","r","c","i","d">>, <<"g","n","d">>, <<"t","y","p","e">>}

\* lines 237-240
RECURSIVE CreatorKeysFrom(_, _, _)
CreatorKeysFrom(st, n, keys) ==
    IF keys = <<>> THEN st
    ELSE CreatorKeysFrom(
             IF Head(keys) \notin valid_creator_fields
             THEN Warn(st, Numbered(<<"C","r","e","a","t","o","r">>, n) \o <<" ","h","a","s"," ","u","n","k","n","o","w","n"," ","f","i","e","l","d",":"," ">> \o Head(keys))
             ELSE st,
             n, Tail(keys))

CreatorKeysChecked(st, creator, n) ==
    IF st.raised # <<>> THEN st ELSE CreatorKeysFrom(st, n, Keys(creator.value))

\* lines 220-240, one creator
CreatorChecked(st, creator, n) ==
    IF creator.type # "dict"
    THEN Issue(st, Numbered(<<"C","r","e","a","t","o","r">>, n) \o <<" ","i","s"," ","n","o","t"," ","a"," ","d","i","c","t","i","o","n","a","r","y">>)
    ELSE CreatorKeysChecked(
             CreatorNameChecked(CreatorFieldsFrom(st, creator, n, required_creator_fields),
                                GetOr(creator.value, <<"n","a","m","e">>, PyStr(<<>>)), n),
             creator, n)

RECURSIVE CreatorsFrom(_, _, _)
CreatorsFrom(st, creators, n) ==
    IF n > Len(creators) \/ st.raised # <<>> THEN st
    ELSE CreatorsFrom(CreatorChecked(st, creators[n], n), creators, n + 1)

CreatorsChecked(st, creators) ==
    IF ~Truthy(creators) THEN Issue(st, <<"N","o"," ","c","r","e","a","t","o","r","s"," ","s","p","e","c","i","f","i","e","d">>)
    ELSE IF ~Iterable(creators) THEN Raise(st, NotIterable(creators))
    ELSE CreatorsFrom(st, Items(creators), 1)

_validate_creators(st) == CreatorsChecked(st, Field(st, <<"c","r","e","a","t","o","r","s">>, PyList(<<>>)))

DescriptionChecked(st, description) ==
    IF ~Truthy(description) THEN Issue(st, <<"D","e","s","c","r","i","p","t","i","o","n"," ","i","s"," ","e","m","p","t","y"," ","o","r"," ","m","i","s","s","i","n","g">>)
    ELSE IF description.type # "str" THEN Raise(st, AttributeError(description, <<"s","t","r","i","p">>))
    ELSE IF Strip(description.value) = <<>> THEN Issue(st, <<"D","e","s","c","r","i","p","t","i","o","n"," ","i","s"," ","e","m","p","t","y"," ","o","r"," ","m","i","s","s","i","n","g">>)
    ELSE IF Len(description.value) < 10 THEN Warn(st, <<"D","e","s","c","r","i","p","t","i","o","n"," ","i","s"," ","v","e","r","y"," ","s","h","o","r","t">>)
    ELSE IF Len(description.value) > 10000
    THEN Warn(st, <<"D","e","s","c","r","i","p","t","i","o","n"," ","i","s"," ","v","e","r","y"," ","l","o","n","g"," ","(">> \o StrOf(Len(description.value)) \o <<" ","c","h","a","r","a","c","t","e","r","s",")">>)
    ELSE st

_validate_description(st) == DescriptionChecked(st, Field(st, <<"d","e","s","c","r","i","p","t","i","o","n">>, PyStr(<<>>)))

\* lines 259-261
AccessConditionsChecked(st, access_right) ==
    IF /\ IsOneOf(access_right, {<<"r","e","s","t","r","i","c","t","e","d">>})
       /\ \/ ~HasField(st, <<"a","c","c","e","s","s","_","c","o","n","d","i","t","i","o","n","s">>)
          \/ ~Truthy(st.metadata.value[<<"a","c","c","e","s","s","_","c","o","n","d","i","t","i","o","n","s">>])
    THEN Issue(st, <<"a","c","c","e","s","s","_","c","o","n","d","i","t","i","o","n","s"," ","r","e","q","u","i","r","e","d"," ","f","o","r"," ","r","e","s","t","r","i","c","t","e","d"," ","a","c","c","e","s","s">>)
    ELSE st

\* lines 255-261
AccessRightChecked(st, access_right) ==
    AccessConditionsChecked(
        IF ~IsOneOf(access_right, valid_access_rights)
        THEN Issue(st, <<"I","n","v","a","l","i","d"," ","a","c","c","e","s","s","_","r","i","g","h","t",":"," ">> \o Format(access_right))
        ELSE st,
        access_right)

_validate_access_right(st) == AccessRightChecked(st, Field(st, <<"a","c","c","e","s","s","_","r","i","g","h","t">>, PyStr(<<>>)))

valid_licenses ==
    {<<"c","c","-","z","e","r","o">>, <<"c","c","-","b","y","-","4",".","0">>, <<"c","c","-","b","y","-","s","a","-","4",".","0">>, <<"c","c","-","b","y","-","n","c","-","4",".","0">>, <<"m","i","t">>, <<"a","p","a","c","h","e","-","2",".","0">>,
     <<"g","p","l","-","3",".","0">>, <<"g","p","l","-","2",".","0">>, <<"b","s","d","-","3","-","c","l","a","u","s","e">>, <<"l","g","p","l","-","3",".","0">>, <<"m","p","l","-","2",".","0">>, <<"e","p","l","-","1",".","0">>, <<"c","d","d","l","-","1",".","0">>}

_is_valid_license(license_id) == IsOneOf(license_id, valid_licenses)

\* lines 268-272
LicenseChecked(st, access_right, license_field) ==
    IF ~IsOneOf(access_right, {<<"o","p","e","n">>, <<"e","m","b","a","r","g","o","e","d">>}) THEN st
    ELSE IF ~Truthy(license_field) THEN Issue(st, <<"L","i","c","e","n","s","e"," ","r","e","q","u","i","r","e","d"," ","f","o","r"," ","o","p","e","n","/","e","m","b","a","r","g","o","e","d"," ","a","c","c","e","s","s">>)
    ELSE IF ~_is_valid_license(license_field)
    THEN Warn(st, <<"U","n","k","n","o","w","n"," ","l","i","c","e","n","s","e",":"," ">> \o Format(license_field))
    ELSE st

_validate_license(st) ==
    LicenseChecked(st, Field(st, <<"a","c","c","e","s","s","_","r","i","g","h","t">>, PyStr(<<>>)), Field(st, <<"l","i","c","e","n","s","e">>, PyStr(<<>>)))

\* lines 291-296, one keyword
KeywordChecked(st, keyword, n) ==
    IF keyword.type # "str" THEN Issue(st, Numbered(<<"K","e","y","w","o","r","d">>, n) \o <<" ","i","s"," ","n","o","t"," ","a"," ","s","t","r","i","n","g">>)
    ELSE IF Strip(keyword.value) = <<>> THEN Issue(st, Numbered(<<"K","e","y","w","o","r","d">>, n) \o <<" ","i","s"," ","e","m","p","t","y">>)
    ELSE IF Len(keyword.value) > 100
    THEN Warn(st, Numbered(<<"K","e","y","w","o","r","d">>, n) \o <<" ","i","s"," ","v","e","r","y"," ","l","o","n","g",":"," ">> \o keyword.value)
    ELSE st

RECURSIVE KeywordsFrom(_, _, _)
KeywordsFrom(st, keywords, n) ==
    IF n > Len(keywords) THEN st
    ELSE KeywordsFrom(KeywordChecked(st, keywords[n], n), keywords, n + 1)

KeywordsChecked(st, keywords) ==
    IF keywords.type # "list" THEN Issue(st, <<"K","e","y","w","o","r","d","s"," ","m","u","s","t"," ","b","e"," ","a"," ","l","i","s","t">>)
    ELSE KeywordsFrom(st, keywords.value, 1)

_validate_keywords(st) == KeywordsChecked(st, Field(st, <<"k","e","y","w","o","r","d","s">>, PyList(<<>>)))

\* re.match(r'^10\.\d+/', identifier)
IsDoi(s) ==
    /\ Len(s) >= 5 /\ SubSeq(s, 1, 3) = <<"1","0",".">>
    /\ \E n \in 4..(Len(s) - 1) : AllDigits(SubSeq(s, 4, n)) /\ s[n + 1] = "/"

SchemeChars == {LowerChars[i] : i \in 1..26} \cup {UpperChars[i] : i \in 1..26}
               \cup {Digits[i] : i \in 1..10} \cup {"+", "-", "."}

\* urlparse(identifier).scheme: the characters before the first colon when
\* they make a scheme name
SchemeEnd(s) ==
    IF \E i \in 1..Len(s) : s[i] = ":"
    THEN CHOOSE i \in 1..Len(s) : s[i] = ":" /\ \A j \in 1..(i - 1) : s[j] # ":"
    ELSE 0

HasScheme(s) ==
    /\ SchemeEnd(s) > 1
    /\ s[1] \notin {Digits[i] : i \in 1..10} \cup {"+", "-", "."}
    /\ \A j \in 1..(SchemeEnd(s) - 1) : s[j] \in SchemeChars

\* urlparse(identifier).netloc is not empty: "//" and a character that
\* does not end the network location follow the scheme
HasNetloc(s) ==
    /\ Len(s) >= SchemeEnd(s) + 3
    /\ s[SchemeEnd(s) + 1] = "/" /\ s[SchemeEnd(s) + 2] = "/"
    /\ s[SchemeEnd(s) + 3] \notin {"/", "?", "#"}

\* lines 327-333 on a string
_is_valid_identifier(s) == IsDoi(s) \/ (HasScheme(s) /\ HasNetloc(s))

\* lines 316-322
RelationChecked(st, rel_id, n) ==
    IF ~IsOneOf(rel_id.value[<<"r","e","l","a","t","i","o","n">>], valid_relations)
    THEN Issue(st, Numbered(<<"R","e","l","a","t","e","d"," ","i","d","e","n","t","i","f","i","e","r">>, n) \o <<" ","h","a","s"," ","i","n","v","a","l","i","d"," ","r","e","l","a","t","i","o","n",":"," ">>
                   \o Format(rel_id.value[<<"r","e","l","a","t","i","o","n">>]))
    ELSE st

IdentifierChecked(st, identifier, n) ==
    IF identifier.type # "str"
    THEN Raise(st, <<"e","x","p","e","c","t","e","d"," ","s","t","r","i","n","g"," ","o","r"," ","b","y","t","e","s","-","l","i","k","e"," ","o","b","j","e","c","t",","," ","g","o","t"," ","'">> \o TypeText(identifier) \o <<"'">>)
    ELSE IF ~_is_valid_identifier(identifier.value)
    THEN Warn(st, Numbered(<<"R","e","l","a","t","e","d"," ","i","d","e","n","t","i","f","i","e","r">>, n) \o <<" ","m","a","y"," ","n","o","t"," ","b","e"," ","v","a","l","i","d",":"," ">> \o identifier.value)
    ELSE st

\* lines 305-322, one related identifier
RelatedIdentifierChecked(st, rel_id, n) ==
    IF rel_id.type # "dict"
    THEN Issue(st, Numbered(<<"R","e","l","a","t","e","d"," ","i","d","e","n","t","i","f","i","e","r">>, n) \o <<" ","i","s"," ","n","o","t"," ","a"," ","d","i","c","t","i","o","n","a","r","y">>)
    ELSE IF <<"i","d","e","n","t","i","f","i","e","r">> \notin DOMAIN rel_id.value
    THEN Issue(st, Numbered(<<"R","e","l","a","t","e","d"," ","i","d","e","n","t","i","f","i","e","r">>, n) \o <<" ","m","i","s","s","i","n","g"," ","'","i","d","e","n","t","i","f","i","e","r","'"," ","f","i","e","l","d">>)
    ELSE IF <<"r","e","l","a","t","i","o","n">> \notin DOMAIN rel_id.value
    THEN Issue(st, Numbered(<<"R","e","l","a","t","e","d"," ","i","d","e","n","t","i","f","i","e","r">>, n) \o <<" ","m","i","s","s","i","n","g"," ","'","r","e","l","a","t","i","o","n","'"," ","f","i","e","l","d">>)
    ELSE IdentifierChecked(RelationChecked(st, rel_id, n), rel_id.value[<<"i","d","e","n","t","i","f","i","e","r">>], n)

RECURSIVE RelatedIdentifiersFrom(_, _, _)
RelatedIdentifiersFrom(st, related_ids, n) ==
    IF n > Len(related_ids) \/ st.raised # <<>> THEN st
    ELSE RelatedIdentifiersFrom(RelatedIdentifierChecked(st, related_ids[n], n), related_ids, n + 1)

RelatedIdentifiersChecked(st, related_ids) ==
    IF related_ids.type # "list" THEN Issue(st, <<"R","e","l","a","t","e","d"," ","i","d","e","n","t","i","f","i","e","r","s"," ","m","u","s","t"," ","b","e"," ","a"," ","l","i","s","t">>)
    ELSE RelatedIdentifiersFrom(st, related_ids.value, 1)

_validate_related_identifiers(st) ==
    RelatedIdentifiersChecked(st, Field(st, <<"r","e","l","a","t","e","d","_","i","d","e","n","t","i","f","i","e","r","s">>, PyList(<<>>)))

valid_types ==
    {<<"C","o","n","t","a","c","t","P","e","r","s","o","n">>, <<"D","a","t","a","C","o","l","l","e","c","t","o","r">>, <<"D","a","t","a","C","u","r","a","t","o","r">>, <<"D","a","t","a","M","a","n","a","g","e","r">>, <<"D","i","s","t","r","i","b","u","t","o","r">>,
     <<"E","d","i","t","o","r">>, <<"H","o","s","t","i","n","g","I","n","s","t","i","t","u","t","i","o","n">>, <<"P","r","o","d","u","c","e","r">>, <<"P","r","o","j","e","c","t","L","e","a","d","e","r">>, <<"P","r","o","j","e","c","t","M","a","n","a","g","e","r">>,
     <<"P","r","o","j","e","c","t","M","e","m","b","e","r">>, <<"R","e","g","i","s","t","r","a","t","i","o","n","A","g","e","n","c","y">>, <<"R","e","g","i","s","t","r","a","t","i","o","n","A","u","t","h","o","r","i","t","y">>, <<"R","e","l","a","t","e","d","P","e","r","s","o","n">>,
     <<"R","e","s","e","a","r","c","h","e","r">>, <<"R","e","s","e","a","r","c","h","G","r","o","u","p">>, <<"R","i","g","h","t","s","H","o","l","d","e","r">>, <<"S","u","p","e","r","v","i","s","o","r">>, <<"S","p","o","n","s","o","r">>,
     <<"W","o","r","k","P","a","c","k","a","g","e","L","e","a","d","e","r">>, <<"O","t","h","e","r">>}

\* lines 359-369, one contributor
ContributorChecked(st, contributor, n) ==
    IF contributor.type # "dict"
    THEN Issue(st, Numbered(<<"C","o","n","t","r","i","b","u","t","o","r">>, n) \o <<" ","i","s"," ","n","o","t"," ","a"," ","d","i","c","t","i","o","n","a","r","y">>)
    ELSE IF <<"n","a","m","e">> \notin DOMAIN contributor.value
    THEN Issue(st, Numbered(<<"C","o","n","t","r","i","b","u","t","o","r">>, n) \o <<" ","m","i","s","s","i","n","g"," ","'","n","a","m","e","'"," ","f","i","e","l","d">>)
    ELSE IF <<"t","y","p","e">> \notin DOMAIN contributor.value
    THEN Issue(st, Numbered(<<"C","o","n","t","r","i","b","u","t","o","r">>, n) \o <<" ","m","i","s","s","i","n","g"," ","'","t","y","p","e","'"," ","f","i","e","l","d">>)
    ELSE IF ~IsOneOf(contributor.value[<<"t","y","p","e">>], valid_types)
    THEN Issue(st, Numbered(<<"C","o","n","t","r","i","b","u","t","o","r">>, n) \o <<" ","h","a","s"," ","i","n","v","a","l","i","d"," ","t","y","p","e",":"," ">>
                   \o Format(contributor.value[<<"t","y","p","e">>]))
    ELSE st

RECURSIVE ContributorsFrom(_, _, _)
ContributorsFrom(st, contributors, n) ==
    IF n > Len(contributors) THEN st
    ELSE ContributorsFrom(ContributorChecked(st, contributors[n], n), contributors, n + 1)

ContributorsChecked(st, contributors) ==
    IF contributors.type # "list" THEN Issue(st, <<"C","o","n","t","r","i","b","u","t","o","r","s"," ","m","u","s","t"," ","b","e"," ","a"," ","l","i","s","t">>)
    ELSE ContributorsFrom(st, contributors.value, 1)

_validate_contributors(st) == ContributorsChecked(st, Field(st, <<"c","o","n","t","r","i","b","u","t","o","r","s">>, PyList(<<>>)))

\* lines 378-381, one community
CommunityChecked(st, community, n) ==
    IF community.type # "dict"
    THEN Issue(st, Numbered(<<"C","o","m","m","u","n","i","t","y">>, n) \o <<" ","i","s"," ","n","o","t"," ","a"," ","d","i","c","t","i","o","n","a","r","y">>)
    ELSE IF <<"i","d","e","n","t","i","f","i","e","r">> \notin DOMAIN community.value
    THEN Issue(st, Numbered(<<"C","o","m","m","u","n","i","t","y">>, n) \o <<" ","m","i","s","s","i","n","g"," ","'","i","d","e","n","t","i","f","i","e","r","'"," ","f","i","e","l","d">>)
    ELSE st

RECURSIVE CommunitiesFrom(_, _, _)
CommunitiesFrom(st, communities, n) ==
    IF n > Len(communities) THEN st
    ELSE CommunitiesFrom(CommunityChecked(st, communities[n], n), communities, n + 1)

CommunitiesChecked(st, communities) ==
    IF communities.type # "list" THEN Issue(st, <<"C","o","m","m","u","n","i","t","i","e","s"," ","m","u","s","t"," ","b","e"," ","a"," ","l","i","s","t">>)
    ELSE CommunitiesFrom(st, communities.value, 1)

_validate_communities(st) == CommunitiesChecked(st, Field(st, <<"c","o","m","m","u","n","i","t","i","e","s">>, PyList(<<>>)))

\* lines 478-484, one field of the table that the metadata have
FieldLimitChecked(st, field, limit, value) ==
    IF value.type = "str" /\ Len(value.value) > limit
    THEN Issue(st, <<"F","i","e","l","d"," ","'">> \o field \o <<"'"," ","e","x","c","e","e","d","s"," ","c","h","a","r","a","c","t","e","r"," ","l","i","m","i","t",":"," ">>
                   \o StrOf(Len(value.value)) \o <<" ",">"," ">> \o StrOf(limit))
    ELSE IF value.type = "list" /\ Len(value.value) > LimitOr(array_limits, field, 1000)
    THEN Issue(st, <<"F","i","e","l","d"," ","'">> \o field \o <<"'"," ","e","x","c","e","e","d","s"," ","a","r","r","a","y"," ","l","i","m","i","t",":"," ">>
                   \o StrOf(Len(value.value)) \o <<" ",">"," ">> \o StrOf(LimitOr(array_limits, field, 1000)))
    ELSE st

\* the loop of line 476 over the given table
RECURSIVE FieldLimitsFrom(_, _)
FieldLimitsFrom(st, table) ==
    IF table = <<>> THEN st
    ELSE FieldLimitsFrom(
             IF HasField(st, Head(table)[1])
             THEN FieldLimitChecked(st, Head(table)[1], Head(table)[2],
                                    st.metadata.value[Head(table)[1]])
             ELSE st,
             Tail(table))

_validate_field_limits(st) == FieldLimitsFrom(st, field_limits)

\* a float that is the quotient of two integers
Ratio(num, den) == [num |-> num, den |-> den]

Count(items, Test(_)) == Len(SelectSeq(items, Test))

IsRequired(field) == \E i \in 1..Len(required_fields) : required_fields[i] = field

\* line 397: field in metadata and metadata[field]
FieldPresent(md, field) ==
    md.type = "dict" /\ field \in DOMAIN md.value /\ Truthy(md.value[field])

\* str(e) of what line 397 raises on a metadata object that is no dict, or <<>>
CoverageRaised(md) ==
    CASE md.type = "dict" -> <<>>
      [] md.type = "list" ->
             IF \E i \in 1..Len(md.value), f \in 1..Len(all_zenodo_fields) :
                    md.value[i].type = "str" /\ md.value[i].value = all_zenodo_fields[f]
             THEN <<"l","i","s","t"," ","i","n","d","i","c","e","s"," ","m","u","s","t"," ","b","e"," ","i","n","t","e","g","e","r","s"," ","o","r"," ","s","l","i","c","e","s",","," ","n","o","t"," ","s","t","r">>
             ELSE <<>>
      [] md.type = "str" ->
             IF \E f \in 1..Len(all_zenodo_fields) : Contains(md.value, all_zenodo_fields[f])
             THEN <<"s","t","r","i","n","g"," ","i","n","d","i","c","e","s"," ","m","u","s","t"," ","b","e"," ","i","n","t","e","g","e","r","s",","," ","n","o","t"," ","'","s","t","r","'">>
             ELSE <<>>
      [] OTHER -> NotIterableArgument(md)

\* lines 385-412
Coverage(md) ==
    [total_possible_fields |-> Len(all_zenodo_fields),
     fields_present |-> SelectSeq(all_zenodo_fields, LAMBDA f : FieldPresent(md, f)),
     fields_missing |-> SelectSeq(all_zenodo_fields, LAMBDA f : ~FieldPresent(md, f)),
     coverage_percentage |->
         Ratio(Count(all_zenodo_fields, LAMBDA f : FieldPresent(md, f)) * 100, Len(all_zenodo_fields)),
     required_fields_present |->
         Count(all_zenodo_fields, LAMBDA f : FieldPresent(md, f) /\ IsRequired(f)),
     required_fields_missing |->
         SelectSeq(all_zenodo_fields, LAMBDA f : ~FieldPresent(md, f) /\ IsRequired(f)),
     optional_fields_present |->
         Count(all_zenodo_fields, LAMBDA f : FieldPresent(md, f) /\ ~IsRequired(f)),
     optional_fields_missing |->
         SelectSeq(all_zenodo_fields, LAMBDA f : ~FieldPresent(md, f) /\ ~IsRequired(f))]

_analyze_field_coverage(st) ==
    IF CoverageRaised(st.metadata) # <<>> THEN Raise(st, CoverageRaised(st.metadata))
    ELSE [st EXCEPT !.field_coverage = Coverage(st.metadata)]

\* lines 448-450: the characters of the string values of a dict item
RECURSIVE DictChars(_, _)
DictChars(mapping, keys) ==
    IF keys = <<>> THEN 0
    ELSE (IF mapping[Head(keys)].type = "str" THEN Len(mapping[Head(keys)].value) ELSE 0)
         + DictChars(mapping, Tail(keys))

\* lines 442-450
RECURSIVE ListChars(_)
ListChars(items) ==
    IF items = <<>> THEN 0
    ELSE (CASE Head(items).type = "str" -> Len(Head(items).value)
            [] Head(items).type = "dict" -> DictChars(Head(items).value, Keys(Head(items).value))
            [] OTHER -> 0)
         + ListChars(Tail(items))

\* the character count of a value, 0 for a value that gets none
CharCount(value) ==
    CASE value.type = "str" -> Len(value.value)
      [] value.type = "list" -> ListChars(value.value)
      [] OTHER -> 0

\* a field gets an entry in field_character_counts
IsCounted(value) == value.type = "str" \/ (value.type = "list" /\ ListChars(value.value) > 0)

\* field_character_counts.items(), lines 425-454
RECURSIVE FieldCharacterCounts(_, _)
FieldCharacterCounts(mapping, keys) ==
    IF keys = <<>> THEN <<>>
    ELSE (IF IsCounted(mapping[Head(keys)])
          THEN <<<<Head(keys), CharCount(mapping[Head(keys)])>>>>
          ELSE <<>>)
         \o FieldCharacterCounts(mapping, Tail(keys))

RECURSIVE TotalOf(_)
TotalOf(counts) == IF counts = <<>> THEN 0 ELSE Head(counts)[2] + TotalOf(Tail(counts))

\* lines 432-438
OverLimit(mapping, counts) ==
    SelectSeq(counts, LAMBDA c : /\ mapping[c[1]].type = "str"
                                 /\ HasLimit(field_limits, c[1])
                                 /\ c[2] > LimitOr(field_limits, c[1], 0))

OverLimitEntry(c) ==
    [field |-> c[1], count |-> c[2], limit |-> LimitOr(field_limits, c[1], 0),
     excess |-> c[2] - LimitOr(field_limits, c[1], 0)]

\* sorted(items, key=lambda x: x[1], reverse=True): stable, largest first
RECURSIVE InsertByCount(_, _)
InsertByCount(sorted, item) ==
    IF sorted = <<>> THEN <<item>>
    ELSE IF Head(sorted)[2] >= item[2] THEN <<Head(sorted)>> \o InsertByCount(Tail(sorted), item)
    ELSE <<item>> \o sorted

RECURSIVE SortedByCount(_)
SortedByCount(items) ==
    IF items = <<>> THEN <<>>
    ELSE InsertByCount(SortedByCount(SubSeq(items, 1, Len(items) - 1)), items[Len(items)])

FirstTen(items) == SubSeq(items, 1, IF Len(items) < 10 THEN Len(items) ELSE 10)

\* lines 462-470: count > avg_chars * 2, avg_chars being total / number of fields
TextDensity(counts, total) ==
    IF counts = <<>> THEN <<>>
    ELSE [average_chars_per_field |-> Ratio(total, Len(counts)),
          fields_with_high_density |-> SelectSeq(counts, LAMBDA c : c[2] * Len(counts) > total * 2)]

CharacterAnalysis(mapping, counts) ==
    [total_characters |-> TotalOf(counts),
     field_character_counts |-> counts,
     largest_fields |-> FirstTen(SortedByCount(counts)),
     fields_over_limit |->
         [i \in 1..Len(OverLimit(mapping, counts)) |-> OverLimitEntry(OverLimit(mapping, counts)[i])],
     text_density |-> TextDensity(counts, TotalOf(counts))]

_analyze_character_counts(st) ==
    IF st.metadata.type # "dict" THEN Raise(st, AttributeError(st.metadata, <<"i","t","e","m","s">>))
    ELSE [st EXCEPT !.character_analysis =
              CharacterAnalysis(st.metadata.value,
                                FieldCharacterCounts(st.metadata.value, Keys(st.metadata.value)))]

\* os.path.basename
os_path_basename(path) == BaseName(path)

\* datetime.now().isoformat() of the clock reading
isoformat(now) == <<"2","0","2","5","-","1","0","-","1","5","T","0","0",":","0","0",":">> \o Pad(StrOf(now), 2)

\* lines 172-182
_create_validation_result(file_path, is_valid, message, found_issues, found_warnings, field_coverage, character_analysis, now) ==
    [file |-> os_path_basename(file_path), file_path |-> file_path, is_valid |-> is_valid,
     message |-> message, issues |-> found_issues, warnings |-> found_warnings,
     field_coverage |-> field_coverage, character_analysis |-> character_analysis,
     timestamp |-> isoformat(now)]

\* lines 119-143
Validated(st) ==
    Try(_validate_field_limits,
    Try(_validate_communities,
    Try(_validate_contributors,
    Try(_validate_related_identifiers,
    Try(_validate_keywords,
    Try(_validate_license,
    Try(_validate_access_right,
    Try(_validate_description,
    Try(_validate_creators,
    Try(_validate_publication_date,
    Try(_validate_upload_type,
    Try(_validate_title,
    Try(RequiredFieldsChecked,
    Try(_analyze_character_counts,
    Try(_analyze_field_coverage, st)))))))))))))))

\* what a call of validate_file gives: the result, whether it went to
\* validation_results, and the metadata object as the call leaves it
Outcome(result, stored, md) == [result |-> result, stored |-> stored, metadata |-> md]

\* lines 145-165
Concluded(st, json_path, now) ==
    IF st.raised # <<>>
    THEN Outcome(_create_validation_result(json_path, FALSE, <<"V","a","l","i","d","a","t","i","o","n"," ","e","r","r","o","r",":"," ">> \o st.raised,
                                           <<>>, <<>>, <<>>, <<>>, now),
                 FALSE, st.metadata)
    ELSE Outcome(_create_validation_result(
                     json_path, Len(st.issues) = 0,
                     <<"F","o","u","n","d"," ">> \o StrOf(Len(st.issues)) \o <<" ","e","r","r","o","r","s"," ","a","n","d"," ">>
                         \o StrOf(Len(st.warnings)) \o <<" ","w","a","r","n","i","n","g","s">>,
                     st.issues, st.warnings, st.field_coverage, st.character_analysis, now),
                 TRUE, st.metadata)

\* lines 114-116
Started(md) ==
    [metadata |-> md, issues |-> <<>>, warnings |-> <<>>, raised |-> <<>>,
     field_coverage |-> <<>>, character_analysis |-> <<>>]

\* str(e) of what lines 109 and 114 raise on data that are no dict, or <<>>
DataRaised(data) ==
    CASE data.type = "dict" -> <<>>
      [] data.type = "list" ->
             IF \E i \in 1..Len(data.value) :
                    data.value[i].type = "str" /\ data.value[i].value = <<"m","e","t","a","d","a","t","a">>
             THEN <<"l","i","s","t"," ","i","n","d","i","c","e","s"," ","m","u","s","t"," ","b","e"," ","i","n","t","e","g","e","r","s"," ","o","r"," ","s","l","i","c","e","s",","," ","n","o","t"," ","s","t","r">>
             ELSE <<>>
      [] data.type = "str" ->
             IF Contains(data.value, <<"m","e","t","a","d","a","t","a">>)
             THEN <<"s","t","r","i","n","g"," ","i","n","d","i","c","e","s"," ","m","u","s","t"," ","b","e"," ","i","n","t","e","g","e","r","s",","," ","n","o","t"," ","'","s","t","r","'">>
             ELSE <<>>
      [] OTHER -> NotIterableArgument(data)

HasMetadata(data) == data.type = "dict" /\ <<"m","e","t","a","d","a","t","a">> \in DOMAIN data.value

\* lines 109-165 on the data that json.load returned
ValidatedData(data, json_path, now) ==
    IF DataRaised(data) # <<>>
    THEN Outcome(_create_validation_result(json_path, FALSE, <<"V","a","l","i","d","a","t","i","o","n"," ","e","r","r","o","r",":"," ">> \o DataRaised(data),
                                           <<>>, <<>>, <<>>, <<>>, now),
                 FALSE, Unbound)
    ELSE IF ~HasMetadata(data)
    THEN Outcome(_create_validation_result(json_path, FALSE,
                                           <<"M","i","s","s","i","n","g"," ","'","m","e","t","a","d","a","t","a","'"," ","k","e","y"," ","i","n"," ","J","S","O","N"," ","s","t","r","u","c","t","u","r","e">>,
                                           <<>>, <<>>, <<>>, <<>>, now),
                 FALSE, Unbound)
    ELSE Concluded(Validated(Started(data.value[<<"m","e","t","a","d","a","t","a">>])), json_path, now)

\* a file is [parsed |-> TRUE, data |-> ...] or, when json.load raises
\* JSONDecodeError, [parsed |-> FALSE, error |-> str(e)]
validate_file(file, json_path, now) ==
    IF ~file.parsed
    THEN Outcome(_create_validation_result(json_path, FALSE, <<"I","n","v","a","l","i","d"," ","J","S","O","N",":"," ">> \o file.error,
                                           <<>>, <<>>, <<>>, <<>>, now),
                 FALSE, Unbound)
    ELSE ValidatedData(file.data, json_path, now)

(***************************************************************************)
(* Specification SpecValidate: one JSON file is validated up to            *)
(* MaxValidations times, by the same validator or by a new one.  root is   *)
(* the file as json.load reads it, arg the path of the file, metadata the  *)
(* metadata object as the last call left it, ret the last result.          *)
(***************************************************************************)
\* calls of validate_file on the one file
MaxValidations == 2

\* marks a key that a record does not have
Absent == [type |-> "absent", value |-> <<>>]

Without(mapping, key) == [k \in (DOMAIN mapping) \ {key} |-> mapping[k]]

With(mapping, key, value) ==
    IF value.type = "absent" THEN Without(mapping, key) ELSE Put(mapping, key, value)

\* a dict of the given (key, value) pairs
MappingOf(pairs) ==
    [k \in {pairs[i][1] : i \in 1..Len(pairs)} |->
        pairs[CHOOSE i \in 1..Len(pairs) : pairs[i][1] = k][2]]

Repeated(item, n) == [i \in 1..n |-> item]

Creator(name) == PyDict(MappingOf(<<<<<<"n","a","m","e">>, name>>, <<<<"a","f","f","i","l","i","a","t","i","o","n">>, PyStr(<<"N","O","A","A">>)>>>>))

Community(identifier) == PyDict(MappingOf(<<<<<<"i","d","e","n","t","i","f","i","e","r">>, PyStr(identifier)>>>>))

RelatedIdentifier(identifier, relation) ==
    PyDict(MappingOf(<<<<<<"i","d","e","n","t","i","f","i","e","r">>, identifier>>, <<<<"r","e","l","a","t","i","o","n">>, PyStr(relation)>>>>))

Contributor(name, type) ==
    PyDict(MappingOf(<<<<<<"n","a","m","e">>, PyStr(name)>>, <<<<"t","y","p","e">>, PyStr(type)>>>>))

\* a record as the transformer writes it
BaseRecord ==
    MappingOf(<<<<<<"t","i","t","l","e">>, PyStr(<<"S","e","a"," ","I","c","e"," ","E","x","t","e","n","t">>)>>,
                <<<<"u","p","l","o","a","d","_","t","y","p","e">>, PyStr(<<"d","a","t","a","s","e","t">>)>>,
                <<<<"p","u","b","l","i","c","a","t","i","o","n","_","d","a","t","e">>, PyStr(<<"2","0","0","4","-","0","3","-","0","1">>)>>,
                <<<<"c","r","e","a","t","o","r","s">>, PyList(<<Creator(PyStr(<<"D","o","e",","," ","J","a","n","e">>))>>)>>,
                <<<<"d","e","s","c","r","i","p","t","i","o","n">>, PyStr(<<"M","o","n","t","h","l","y"," ","s","e","a"," ","i","c","e"," ","e","x","t","e","n","t","."," ","G","r","i","d","d","e","d",".">>)>>,
                <<<<"a","c","c","e","s","s","_","r","i","g","h","t">>, PyStr(<<"o","p","e","n">>)>>,
                <<<<"l","i","c","e","n","s","e">>, PyStr(<<"c","c","-","z","e","r","o">>)>>,
                <<<<"c","o","m","m","u","n","i","t","i","e","s">>, PyList(<<Community(<<"p","i","c","e","s">>)>>)>>,
                <<<<"k","e","y","w","o","r","d","s">>, PyList(<<PyStr(<<"s","e","a"," ","i","c","e">>), PyStr(<<"o","c","e","a","n">>)>>)>>>>)

\* one field written otherwise: missing, empty, of another type, too long,
\* with malformed entries
Deviations ==
    <<<<<<"n","o","t","e","s">>, Absent>>,
     <<<<"t","i","t","l","e">>, Absent>>, <<<<"t","i","t","l","e">>, PyStr(<<>>)>>, <<<<"t","i","t","l","e">>, PyStr(<<" "," ">>)>>,
     <<<<"t","i","t","l","e">>, PyInt(5)>>, <<<<"t","i","t","l","e">>, PyList(<<PyStr(<<"S","e","a"," ","I","c","e">>)>>)>>, <<<<"t","i","t","l","e">>, PyNone>>,
     <<<<"t","i","t","l","e">>, PyStr(TitleOfLength(201))>>, <<<<"t","i","t","l","e">>, PyStr(TitleOfLength(251))>>,
     <<<<"t","i","t","l","e">>, PyStr(<<" ","S","e","a"," ","I","c","e"," ","E","x","t","e","n","t"," ">>)>>,
     <<<<"u","p","l","o","a","d","_","t","y","p","e">>, Absent>>, <<<<"u","p","l","o","a","d","_","t","y","p","e">>, PyStr(<<"m","a","p">>)>>, <<<<"u","p","l","o","a","d","_","t","y","p","e">>, PyInt(3)>>,
     <<<<"p","u","b","l","i","c","a","t","i","o","n","_","d","a","t","e">>, Absent>>, <<<<"p","u","b","l","i","c","a","t","i","o","n","_","d","a","t","e">>, PyStr(<<"a","b","c","d","-","0","1","-","0","1">>)>>,
     <<<<"p","u","b","l","i","c","a","t","i","o","n","_","d","a","t","e">>, PyStr(<<"2","0","0","4","-","1","3","-","0","1">>)>>, <<<<"p","u","b","l","i","c","a","t","i","o","n","_","d","a","t","e">>, PyInt(2004)>>,
     <<<<"c","r","e","a","t","o","r","s">>, Absent>>, <<<<"c","r","e","a","t","o","r","s">>, PyList(<<>>)>>,
     <<<<"c","r","e","a","t","o","r","s">>, PyList(<<PyStr(<<"N","O","A","A">>)>>)>>,
     <<<<"c","r","e","a","t","o","r","s">>, PyList(<<PyDict(MappingOf(<<<<<<"a","f","f","i","l","i","a","t","i","o","n">>, PyStr(<<"N","O","A","A">>)>>>>))>>)>>,
     <<<<"c","r","e","a","t","o","r","s">>, PyList(<<Creator(PyStr(<<"N","O","A","A">>)), Creator(PyStr(<<>>))>>)>>,
     <<<<"c","r","e","a","t","o","r","s">>, PyList(<<Creator(PyInt(7))>>)>>,
     <<<<"c","r","e","a","t","o","r","s">>, PyInt(3)>>, <<<<"c","r","e","a","t","o","r","s">>, PyStr(<<"D","i">>)>>,
     <<<<"c","r","e","a","t","o","r","s">>, PyList(<<PyDict(MappingOf(<<<<<<"n","a","m","e">>, PyStr(<<"D","o","e",","," ","J","a","n","e">>)>>,
                                                   <<<<"r","o","l","e">>, PyStr(<<"a","u","t","h","o","r">>)>>>>))>>)>>,
     <<<<"d","e","s","c","r","i","p","t","i","o","n">>, Absent>>, <<<<"d","e","s","c","r","i","p","t","i","o","n">>, PyStr(<<" "," ">>)>>,
     <<<<"d","e","s","c","r","i","p","t","i","o","n">>, PyStr(<<"I","c","e",".">>)>>, <<<<"d","e","s","c","r","i","p","t","i","o","n">>, PyInt(1)>>,
     <<<<"k","e","y","w","o","r","d","s">>, PyStr(<<"i","c","e">>)>>,
     <<<<"k","e","y","w","o","r","d","s">>, PyList(<<PyInt(1), PyStr(<<" ">>), PyStr(<<"i","c","e">>)>>)>>,
     <<<<"r","e","l","a","t","e","d","_","i","d","e","n","t","i","f","i","e","r","s">>, PyStr(<<"1","0",".","1","2","3","4","/","x">>)>>,
     <<<<"r","e","l","a","t","e","d","_","i","d","e","n","t","i","f","i","e","r","s">>, PyList(<<PyStr(<<"1","0",".","1","2","3","4","/","x">>)>>)>>,
     <<<<"r","e","l","a","t","e","d","_","i","d","e","n","t","i","f","i","e","r","s">>, PyList(<<PyDict(MappingOf(<<<<<<"i","d","e","n","t","i","f","i","e","r">>, PyStr(<<"1","0",".","1","2","3","4","/","x">>)>>>>))>>)>>,
     <<<<"r","e","l","a","t","e","d","_","i","d","e","n","t","i","f","i","e","r","s">>, PyList(<<PyDict(MappingOf(<<<<<<"r","e","l","a","t","i","o","n">>, PyStr(<<"c","i","t","e","s">>)>>>>))>>)>>,
     <<<<"r","e","l","a","t","e","d","_","i","d","e","n","t","i","f","i","e","r","s">>, PyList(<<RelatedIdentifier(PyStr(<<"1","0",".","1","2","3","4","/","x">>), <<"c","i","t","e","s">>),
                                         RelatedIdentifier(PyStr(<<"h","t","t","p","s",":","/","/","p","i","c","e","s",".","i","n","t","/","a">>), <<"i","s","P","a","r","t","O","f">>)>>)>>,
     <<<<"r","e","l","a","t","e","d","_","i","d","e","n","t","i","f","i","e","r","s">>, PyList(<<RelatedIdentifier(PyStr(<<"i","s","b","n",":","1","2">>), <<"q","u","o","t","e","s">>)>>)>>,
     <<<<"r","e","l","a","t","e","d","_","i","d","e","n","t","i","f","i","e","r","s">>, PyList(<<RelatedIdentifier(PyInt(12), <<"c","i","t","e","s">>)>>)>>,
     <<<<"c","o","n","t","r","i","b","u","t","o","r","s">>, PyStr(<<"N","O","A","A">>)>>,
     <<<<"c","o","n","t","r","i","b","u","t","o","r","s">>, PyList(<<Contributor(<<"R","o","e",","," ","A","n","n">>, <<"E","d","i","t","o","r">>), PyStr(<<"N","O","A","A">>)>>)>>,
     <<<<"c","o","n","t","r","i","b","u","t","o","r","s">>, PyList(<<Contributor(<<"R","o","e",","," ","A","n","n">>, <<"A","u","t","h","o","r">>),
                                  PyDict(MappingOf(<<<<<<"n","a","m","e">>, PyStr(<<"R","o","e",","," ","A","n","n">>)>>>>)),
                                  PyDict(MappingOf(<<<<<<"t","y","p","e">>, PyStr(<<"E","d","i","t","o","r">>)>>>>))>>)>>,
     <<<<"c","o","m","m","u","n","i","t","i","e","s">>, Absent>>, <<<<"c","o","m","m","u","n","i","t","i","e","s">>, PyStr(<<"p","i","c","e","s">>)>>,
     <<<<"c","o","m","m","u","n","i","t","i","e","s">>, PyList(<<PyStr(<<"p","i","c","e","s">>), PyDict(MappingOf(<<<<<<"n","a","m","e">>, PyStr(<<"p","i","c","e","s">>)>>>>))>>)>>,
     <<<<"c","o","m","m","u","n","i","t","i","e","s">>, PyList(Repeated(Community(<<"p","i","c","e","s">>), 11))>>,
     <<<<"l","a","n","g","u","a","g","e">>, PyStr(<<"e","n">>)>>, <<<<"l","a","n","g","u","a","g","e">>, PyStr(<<"E","n","g","l","i","s","h"," ","(","U","S",")">>)>>,
     <<<<"v","e","r","s","i","o","n">>, PyStr(TitleOfLength(51))>>,
     <<<<"n","o","t","e","s">>, PyStr(<<"P","u","r","p","o","s","e",":"," ","m","o","n","i","t","o","r","i","n","g">>)>>>>

AccessRights ==
    <<Absent, PyStr(<<"o","p","e","n">>), PyStr(<<"e","m","b","a","r","g","o","e","d">>), PyStr(<<"r","e","s","t","r","i","c","t","e","d">>), PyStr(<<"c","l","o","s","e","d">>),
      PyStr(<<"s","e","c","r","e","t">>)>>

Licenses == <<Absent, PyStr(<<>>), PyStr(<<"c","c","-","z","e","r","o">>), PyStr(<<"m","y","-","l","i","c","e","n","s","e">>)>>

AccessConditions == <<Absent, PyStr(<<>>), PyStr(<<"B","y"," ","r","e","q","u","e","s","t">>)>>

\* the base record with one deviation and the given access fields
Record(deviation, access_right, license, access_conditions) ==
    With(With(With(With(BaseRecord, deviation[1], deviation[2]), <<"a","c","c","e","s","s","_","r","i","g","h","t">>, access_right),
              <<"l","i","c","e","n","s","e">>, license),
         <<"a","c","c","e","s","s","_","c","o","n","d","i","t","i","o","n","s">>, access_conditions)

Parsed(data) == [parsed |-> TRUE, data |-> data]

\* files that hold no record: no JSON, no metadata key, data or metadata
\* that are no mapping
OtherFiles ==
    <<[parsed |-> FALSE, error |-> <<"E","x","p","e","c","t","i","n","g"," ","v","a","l","u","e",":"," ","l","i","n","e"," ","1"," ","c","o","l","u","m","n"," ","1"," ","(","c","h","a","r"," ","0",")">>],
     Parsed(PyDict(MappingOf(<<<<<<"t","i","t","l","e">>, PyStr(<<"S","e","a"," ","I","c","e"," ","E","x","t","e","n","t">>)>>>>))),
     Parsed(PyList(<<>>)), Parsed(PyNone),
     Parsed(PyDict(MappingOf(<<<<<<"m","e","t","a","d","a","t","a">>, PyList(<<>>)>>>>))),
     Parsed(PyDict(MappingOf(<<<<<<"m","e","t","a","d","a","t","a">>, PyNone>>>>)))>>

FileOf(record) == Parsed(PyDict(MappingOf(<<<<<<"m","e","t","a","d","a","t","a">>, PyDict(record)>>>>)))

IsFile(file) ==
    \/ \E i \in 1..Len(OtherFiles) : file = OtherFiles[i]
    \/ \E d \in 1..Len(Deviations), a \in 1..Len(AccessRights), l \in 1..Len(Licenses),
          c \in 1..Len(AccessConditions) :
           file = FileOf(Record(Deviations[d], AccessRights[a], Licenses[l], AccessConditions[c]))

JsonPaths == {<<"o","u","t","p","u","t","/","z","e","n","o","d","o","_","j","s","o","n","/","F","G","D","C","-","1",".","j","s","o","n">>}

InitValidate ==
    /\ pc = "validator"
    /\ IsFile(root)
    /\ arg \in JsonPaths
    /\ metadata = Unbound
    /\ ret = Pending
    /\ now_year = 2025
    /\ frame = <<>>
    /\ warnings = <<>>
    /\ errors = <<>>
    /\ date_formats = <<>>
    /\ license_detected = 0
    /\ bbox_issues = <<>>
    /\ validation_results = <<>>
    /\ clock = 0
    /\ returned = <<>>

\* the effects of one call: line 155, and the result handed to the caller
ValidationApplied(r) ==
    /\ ret' = r.result
    /\ returned' = Append(returned, r.result)
    /\ validation_results' = IF r.stored THEN Append(validation_results, r.result)
                             ELSE validation_results
    /\ metadata' = r.metadata

\* validator.validate_file(json_path), the clock having moved on or not
ValidateFile ==
    /\ pc = "validator"
    /\ Len(returned) < MaxValidations
    /\ \E now \in {clock, clock + 1} :
           /\ ValidationApplied(validate_file(root, arg, now))
           /\ clock' = now
    /\ UNCHANGED <<pc, root, arg, now_year, frame, warnings, errors, date_formats,
                   license_detected, bbox_issues>>

\* validator = ZenodoValidator(), lines 23-25
NewValidator ==
    /\ pc = "validator"
    /\ Len(returned) < MaxValidations
    /\ validation_results # <<>>
    /\ validation_results' = <<>>
    /\ UNCHANGED <<pc, root, arg, metadata, ret, now_year, frame, warnings, errors, date_formats,
                   license_detected, bbox_issues, clock, returned>>

NextValidate == ValidateFile \/ NewValidator

SpecValidate == InitValidate /\ [][NextValidate]_vars

(***************************************************************************)
(* EnhancedMetricsCalculator (enhanced_metrics.py).  The record is the     *)
(* mapping the validator section uses.  The FGDC content is held as what   *)
(* ET.fromstring makes of it: whether it parses, its length, and its       *)
(* elements in document order (the root first), each with tag and text.    *)
(* A score round(x, 1) is held as its number of tenths, a ratio            *)
(* round(x, 3) as its number of thousandths and round(x, 2) as hundredths. *)
(* Python rounds the binary value of x: where x is held exactly, a tie     *)
(* goes to the even neighbour (RoundDiv); where it is not, the binary      *)
(* value lies a hair beside an exact decimal tie and the result is one of  *)
(* the two neighbours (Nearest), so that the operators built on it give    *)
(* the set of results the call can return.                                 *)
(***************************************************************************)
\* round(num / den) of two integers, den > 0, for a quotient without tie or
\* held exactly in binary
RoundDiv(num, den) ==
    IF 2 * (num % den) < den THEN num \div den
    ELSE IF 2 * (num % den) > den THEN (num \div den) + 1
    ELSE IF (num \div den) % 2 = 0 THEN num \div den ELSE (num \div den) + 1

\* round(num / den) for a quotient that binary floating point approximates
Nearest(num, den) ==
    IF 2 * (num % den) = den THEN {num \div den, (num \div den) + 1}
    ELSE {RoundDiv(num, den)}

\* the critical, important and optional fields with their weights, lines 22-43
field_weights ==
    <<<<"critical", <<"t","i","t","l","e">>, 20>>, <<"critical", <<"c","r","e","a","t","o","r","s">>, 20>>,
      <<"critical", <<"p","u","b","l","i","c","a","t","i","o","n","_","d","a","t","e">>, 15>>, <<"critical", <<"d","e","s","c","r","i","p","t","i","o","n">>, 15>>,
      <<"important", <<"k","e","y","w","o","r","d","s">>, 10>>, <<"important", <<"a","c","c","e","s","s","_","r","i","g","h","t">>, 8>>,
      <<"important", <<"l","i","c","e","n","s","e">>, 7>>, <<"important", <<"c","o","m","m","u","n","i","t","i","e","s">>, 5>>,
      <<"optional", <<"n","o","t","e","s">>, 3>>, <<"optional", <<"r","e","l","a","t","e","d","_","i","d","e","n","t","i","f","i","e","r","s">>, 2>>,
      <<"optional", <<"c","o","n","t","r","i","b","u","t","o","r","s">>, 2>>, <<"optional", <<"r","e","f","e","r","e","n","c","e","s">>, 1>>,
      <<"optional", <<"v","e","r","s","i","o","n">>, 1>>, <<"optional", <<"i","m","p","r","i","n","t","_","p","u","b","l","i","s","h","e","r">>, 1>>>>

quality_thresholds == <<<<<<"e","x","c","e","l","l","e","n","t">>, 90>>, <<<<"g","o","o","d">>, 75>>, <<<<"f","a","i","r">>, 60>>, <<<<"p","o","o","r">>, 0>>>>

\* zenodo_metadata.get(field) is not None
NotNone(md, field) == field \in DOMAIN md /\ md[field].type # "NoneType"

\* zenodo_metadata.get(field) as a condition
Filled(md, field) == field \in DOMAIN md /\ Truthy(md[field])

\* len(json.dumps(value, indent=2)) of a value nested `level` deep, for
\* texts that need no escape
RECURSIVE JsonSize(_, _), JsonItemsSize(_, _), JsonPairsSize(_, _, _)
JsonSize(v, level) ==
    CASE v.type = "str" -> Len(v.value) + 2
      [] v.type = "int" -> Len(IntText(v.value))
      [] v.type = "list" ->
             IF v.value = <<>> THEN 2
             ELSE 2 + JsonItemsSize(v.value, level + 1) + (Len(v.value) - 1) + 1 + 2 * level
      [] v.type = "dict" ->
             IF Keys(v.value) = <<>> THEN 2
             ELSE 2 + JsonPairsSize(v.value, Keys(v.value), level + 1)
                    + (Len(Keys(v.value)) - 1) + 1 + 2 * level
      [] OTHER -> 4

JsonItemsSize(items, level) ==
    IF items = <<>> THEN 0
    ELSE 1 + 2 * level + JsonSize(Head(items), level) + JsonItemsSize(Tail(items), level)

JsonPairsSize(mapping, keys, level) ==
    IF keys = <<>> THEN 0
    ELSE 1 + 2 * level + Len(Head(keys)) + 4 + JsonSize(mapping[Head(keys)], level)
         + JsonPairsSize(mapping, Tail(keys), level)

\* lines 72-82
_analyze_file_info(fgdc_content, zenodo_metadata, file_path, now) ==
    [fgdc_size_bytes |-> fgdc_content.size,
     fgdc_size_kb |-> RoundDiv(fgdc_content.size * 100, 1024),
     zenodo_size_bytes |-> JsonSize(PyDict(zenodo_metadata), 0),
     zenodo_size_kb |-> RoundDiv(JsonSize(PyDict(zenodo_metadata), 0) * 100, 1024),
     filename |-> os_path_basename(file_path),
     timestamp |-> isoformat(now)]

meaningful_elements ==
    <<<<"t","i","t","l","e">>, <<"o","r","i","g","i","n">>, <<"p","u","b","d","a","t","e">>, <<"a","b","s","t","r","a","c","t">>, <<"p","u","r","p","o","s","e">>,
      <<"s","u","p","p","l","i","n","f">>, <<"t","h","e","m","e","k","e","y">>, <<"p","l","a","c","e","k","e","y">>, <<"a","c","c","c","o","n","s","t">>, <<"u","s","e","c","o","n","s","t">>>>

\* elem.text and elem.text.strip()
ElemHasText(elem) == Strip(elem.text) # <<>>

\* root.findall('.//' + tag): the elements below the root with the tag
FindAll(elements, tag) ==
    SelectSeq(Tail(elements), LAMBDA elem : elem.tag = tag)

RECURSIVE TextChars(_)
TextChars(elements) ==
    IF elements = <<>> THEN 0
    ELSE (IF ElemHasText(Head(elements)) THEN Len(Strip(Head(elements).text)) ELSE 0)
         + TextChars(Tail(elements))

RECURSIVE MeaningfulChars(_, _), MeaningfulFields(_, _)
MeaningfulChars(elements, tags) ==
    IF tags = <<>> THEN 0
    ELSE TextChars(FindAll(elements, Head(tags))) + MeaningfulChars(elements, Tail(tags))

MeaningfulFields(elements, tags) ==
    IF tags = <<>> THEN 0
    ELSE Len(SelectSeq(FindAll(elements, Head(tags)), ElemHasText)) + MeaningfulFields(elements, Tail(tags))

\* lines 354-381; content that does not parse gives the zeros of line 381
_extract_meaningful_fgdc_data(fgdc_content) ==
    IF fgdc_content.parsed
    THEN [total_meaningful_chars |-> MeaningfulChars(fgdc_content.elements, meaningful_elements),
          total_fields |-> MeaningfulFields(fgdc_content.elements, meaningful_elements),
          xml_elements |-> Len(fgdc_content.elements)]
    ELSE [total_meaningful_chars |-> 0, total_fields |-> 0, xml_elements |-> 0]

\* lines 391-400
ValueChars(value) ==
    CASE value.type = "str" -> Len(value.value)
      [] value.type = "list" -> ListChars(value.value)
      [] OTHER -> 0

RECURSIVE ZenodoChars(_, _)
ZenodoChars(md, keys) ==
    IF keys = <<>> THEN 0
    ELSE ValueChars(md[Head(keys)]) + ZenodoChars(md, Tail(keys))

\* lines 383-405
_extract_meaningful_zenodo_data(zenodo_metadata) ==
    [total_meaningful_chars |-> ZenodoChars(zenodo_metadata, Keys(zenodo_metadata)),
     mapped_fields |-> Len(SelectSeq(Keys(zenodo_metadata), LAMBDA k : NotNone(zenodo_metadata, k)))]

\* lines 407-420
_calculate_semantic_preservation(fgdc_data, zenodo_data) ==
    IF fgdc_data.total_meaningful_chars = 0 THEN Ratio(0, 1)
    ELSE IF 2 * zenodo_data.total_meaningful_chars < fgdc_data.total_meaningful_chars
            \/ zenodo_data.total_meaningful_chars > 2 * fgdc_data.total_meaningful_chars
         THEN Ratio(1, 2)
         ELSE IF zenodo_data.total_meaningful_chars < fgdc_data.total_meaningful_chars
              THEN Ratio(zenodo_data.total_meaningful_chars, fgdc_data.total_meaningful_chars)
              ELSE Ratio(1, 1)

\* f"{x:.1%}" of x given in thousandths
Percent(thousandths) ==
    IntText(thousandths \div 10) \o <<".">> \o StrOf(thousandths % 10) \o <<"%">>

\* lines 422-431; in binary floating point 1 - 0.7 is above 0.3, so a loss
\* of exactly three tenths is reported as well
_identify_data_loss(fgdc_data, zenodo_data) ==
    IF fgdc_data.total_meaningful_chars > 0
       /\ 10 * zenodo_data.total_meaningful_chars <= 7 * fgdc_data.total_meaningful_chars
    THEN {<<<<"S","i","g","n","i","f","i","c","a","n","t"," ","d","a","t","a"," ","l","o","s","s",":"," ">> \o Percent(loss_ratio) \o <<" ","o","f"," ","c","o","n","t","e","n","t"," ","n","o","t"," ","p","r","e","s","e","r","v","e","d">>>> :
             loss_ratio \in Nearest((fgdc_data.total_meaningful_chars
                                     - zenodo_data.total_meaningful_chars) * 1000,
                                    fgdc_data.total_meaningful_chars)}
    ELSE {<<>>}

\* lines 433-442
_identify_data_gain(fgdc_data, zenodo_data) ==
    IF fgdc_data.total_meaningful_chars > 0
       /\ 2 * zenodo_data.total_meaningful_chars > 3 * fgdc_data.total_meaningful_chars
    THEN {<<<<"S","i","g","n","i","f","i","c","a","n","t"," ","d","a","t","a"," ","e","x","p","a","n","s","i","o","n",":"," ">> \o Percent(gain_ratio) \o <<" ","m","o","r","e"," ","c","o","n","t","e","n","t"," ","t","h","a","n"," ","o","r","i","g","i","n","a","l">>>> :
             gain_ratio \in Nearest((zenodo_data.total_meaningful_chars
                                     - fgdc_data.total_meaningful_chars) * 1000,
                                    fgdc_data.total_meaningful_chars)}
    ELSE {<<>>}

\* lines 92-122
PreservationMetrics(fgdc_data, zenodo_data) ==
    {[content_preservation_ratio |-> content_preservation_ratio,
      field_preservation_ratio |-> field_preservation_ratio,
      semantic_preservation_score |-> _calculate_semantic_preservation(fgdc_data, zenodo_data),
      data_loss_indicators |-> data_loss_indicators,
      data_gain_indicators |-> data_gain_indicators] :
        content_preservation_ratio \in
            IF fgdc_data.total_meaningful_chars > 0
            THEN Nearest(zenodo_data.total_meaningful_chars * 1000, fgdc_data.total_meaningful_chars)
            ELSE {0},
        field_preservation_ratio \in
            IF fgdc_data.total_fields > 0
            THEN Nearest(zenodo_data.mapped_fields * 1000, fgdc_data.total_fields)
            ELSE {0},
        data_loss_indicators \in _identify_data_loss(fgdc_data, zenodo_data),
        data_gain_indicators \in _identify_data_gain(fgdc_data, zenodo_data)}

_calculate_data_preservation_metrics(fgdc_content, zenodo_metadata) ==
    PreservationMetrics(_extract_meaningful_fgdc_data(fgdc_content),
                        _extract_meaningful_zenodo_data(zenodo_metadata))

\* the fields of a category, in the order of field_weights
FieldsOf(category) ==
    [i \in 1..Len(SelectSeq(field_weights, LAMBDA w : w[1] = category)) |->
        SelectSeq(field_weights, LAMBDA w : w[1] = category)[i][2]]

PresentOf(md, category) == SelectSeq(FieldsOf(category), LAMBDA f : NotNone(md, f))

MissingOf(md, category) == SelectSeq(FieldsOf(category), LAMBDA f : ~NotNone(md, f))

RECURSIVE WeightOf(_)
WeightOf(weights) == IF weights = <<>> THEN 0 ELSE Head(weights)[3] + WeightOf(Tail(weights))

\* lines 182-190
WeightedCoverage(md) ==
    RoundDiv(WeightOf(SelectSeq(field_weights, LAMBDA w : NotNone(md, w[2]))) * 1000,
             WeightOf(field_weights))

\* lines 124-192
_calculate_field_coverage_metrics(md) ==
    [critical_fields_present |-> Len(PresentOf(md, "critical")),
     critical_fields_total |-> Len(FieldsOf("critical")),
     critical_fields_percentage |->
         RoundDiv(Len(PresentOf(md, "critical")) * 1000, Len(FieldsOf("critical"))),
     important_fields_present |-> Len(PresentOf(md, "important")),
     important_fields_total |-> Len(FieldsOf("important")),
     important_fields_percentage |->
         RoundDiv(Len(PresentOf(md, "important")) * 1000, Len(FieldsOf("important"))),
     optional_fields_present |-> Len(PresentOf(md, "optional")),
     optional_fields_total |-> Len(FieldsOf("optional")),
     optional_fields_percentage |->
         RoundDiv(Len(PresentOf(md, "optional")) * 1000, Len(FieldsOf("optional"))),
     total_fields_present |-> Len(SelectSeq(field_weights, LAMBDA w : NotNone(md, w[2]))),
     total_fields_possible |-> Len(field_weights),
     overall_coverage_percentage |->
         RoundDiv(Len(SelectSeq(field_weights, LAMBDA w : NotNone(md, w[2]))) * 1000, Len(field_weights)),
     weighted_coverage_score |-> WeightedCoverage(md),
     missing_critical_fields |-> MissingOf(md, "critical"),
     missing_important_fields |-> MissingOf(md, "important"),
     present_optional_fields |-> PresentOf(md, "optional")]

\* an assessment under way: the score and issues so far, and str(e) of the
\* exception that ended it
Assessing == [score |-> 100, issues |-> <<>>, raised |-> <<>>]

Deduct(acc, points, issue) == [acc EXCEPT !.score = @ - points, !.issues = Append(@, issue)]

Failed(acc, text) == [acc EXCEPT !.raised = text]

Grade(score) ==
    IF score >= 90 THEN <<"A">> ELSE IF score >= 80 THEN <<"B">>
    ELSE IF score >= 70 THEN <<"C">> ELSE IF score >= 60 THEN <<"D">> ELSE <<"F">>

\* {'score': max(0, score), 'issues': issues, 'grade': grade}
\* variant: the score is returned as it stands
Graded_Unclamped(acc) ==
    [score |-> acc.score, issues |-> acc.issues, grade |-> Grade(acc.score), raised |-> acc.raised]

Graded(acc) ==
    [score |-> IF acc.score < 0 THEN 0 ELSE acc.score, issues |-> acc.issues,
     grade |-> Grade(acc.score), raised |-> acc.raised]

Ungraded(score, issue, grade) == [score |-> score, issues |-> <<issue>>, grade |-> grade, raised |-> <<>>]

\* str(e) of the TypeError of len(value)
NoLen(v) == <<"o","b","j","e","c","t"," ","o","f"," ","t","y","p","e"," ","'">> \o TypeText(v) \o <<"'"," ","h","a","s"," ","n","o"," ","l","e","n","(",")">>

HasLen(v) == v.type \in {"str", "list", "dict"}

\* len(value)
PyLen(v) == IF v.type = "dict" THEN Cardinality(DOMAIN v.value) ELSE Len(v.value)

\* ch in value, for a value that has a length
Holds(v, ch) ==
    CASE v.type = "str" -> \E i \in 1..Len(v.value) : v.value[i] = ch
      [] v.type = "list" -> \E i \in 1..Len(v.value) :
                                v.value[i].type = "str" /\ v.value[i].value = <<ch>>
      [] OTHER -> <<ch>> \in DOMAIN v.value

IsUpperChar(c) == \E i \in 1..26 : UpperChars[i] = c

IsLowerChar(c) == \E i \in 1..26 : LowerChars[i] = c

\* text.isupper()
IsUpper(s) ==
    /\ \E i \in 1..Len(s) : IsUpperChar(s[i])
    /\ \A i \in 1..Len(s) : ~IsLowerChar(s[i])

\* lines 453-466 on a title that is a string
TitleLength(acc, title) ==
    IF Len(title) < 10 THEN Deduct(acc, 30, <<"T","i","t","l","e"," ","t","o","o"," ","s","h","o","r","t">>)
    ELSE IF Len(title) > 250 THEN Deduct(acc, 20, <<"T","i","t","l","e"," ","t","o","o"," ","l","o","n","g">>) ELSE acc

TitleCapital(acc, title) ==
    IF ~IsUpper(<<title[1]>>) THEN Deduct(acc, 10, <<"T","i","t","l","e"," ","s","h","o","u","l","d"," ","s","t","a","r","t"," ","w","i","t","h"," ","c","a","p","i","t","a","l"," ","l","e","t","t","e","r">>) ELSE acc

TitlePeriod(acc, title) ==
    IF title[Len(title)] = "." THEN Deduct(acc, 5, <<"T","i","t","l","e"," ","s","h","o","u","l","d"," ","n","o","t"," ","e","n","d"," ","w","i","t","h"," ","p","e","r","i","o","d">>) ELSE acc

\* lines 445-470
_assess_title_quality(title) ==
    CASE ~Truthy(title) -> Ungraded(0, <<"M","i","s","s","i","n","g"," ","t","i","t","l","e">>, <<"F">>)
      [] title.type = "str" ->
             Graded(TitlePeriod(TitleCapital(TitleLength(Assessing, title.value), title.value), title.value))
      [] title.type = "list" ->
             Failed(Assessing @@ [grade |-> <<"F">>],
                    IF title.value[1].type = "str"
                    THEN <<"'","l","i","s","t","'"," ","o","b","j","e","c","t"," ","h","a","s"," ","n","o"," ","a","t","t","r","i","b","u","t","e"," ","'","e","n","d","s","w","i","t","h","'">>
                    ELSE AttributeError(title.value[1], <<"i","s","u","p","p","e","r">>))
      [] title.type = "dict" -> Failed(Assessing @@ [grade |-> <<"F">>], <<"0">>)
      [] OTHER -> Failed(Assessing @@ [grade |-> <<"F">>], NoLen(title))

\* lines 488-497 for one creator
NameAssessed(acc, name, n) ==
    CASE ~Truthy(name) -> Deduct(acc, 20, Numbered(<<"C","r","e","a","t","o","r">>, n) \o <<" ","m","i","s","s","i","n","g"," ","n","a","m","e">>)
      [] ~HasLen(name) -> Failed(acc, NoLen(name))
      [] PyLen(name) < 3 -> Deduct(acc, 10, Numbered(<<"C","r","e","a","t","o","r">>, n) \o <<" ","n","a","m","e"," ","t","o","o"," ","s","h","o","r","t">>)
      [] ~Holds(name, ",") /\ ~Holds(name, " ") ->
             Deduct(acc, 5, Numbered(<<"C","r","e","a","t","o","r">>, n) \o <<" ","n","a","m","e"," ","f","o","r","m","a","t"," ","u","n","c","l","e","a","r">>)
      [] OTHER -> acc

CreatorAssessed(acc, creator, n) ==
    IF creator.type # "dict" THEN Failed(acc, AttributeError(creator, <<"g","e","t">>))
    ELSE NameAssessed(acc, GetOr(creator.value, <<"n","a","m","e">>, PyStr(<<>>)), n)

RECURSIVE CreatorQualityFrom(_, _, _)
CreatorQualityFrom(acc, creators, n) ==
    IF creators = <<>> \/ acc.raised # <<>> THEN acc
    ELSE CreatorQualityFrom(CreatorAssessed(acc, Head(creators), n), Tail(creators), n + 1)

\* lines 472-501
_assess_creator_quality(creators) ==
    CASE ~Truthy(creators) -> Ungraded(0, <<"N","o"," ","c","r","e","a","t","o","r","s"," ","s","p","e","c","i","f","i","e","d">>, <<"F">>)
      [] ~HasLen(creators) -> Failed(Assessing @@ [grade |-> <<"F">>], NoLen(creators))
      [] OTHER ->
             Graded(CreatorQualityFrom(
                 IF PyLen(creators) > 10 THEN Deduct(Assessing, 20, <<"T","o","o"," ","m","a","n","y"," ","c","r","e","a","t","o","r","s">>) ELSE Assessing,
                 Items(creators), 1))

\* description.count('.')
Periods(description) ==
    IF description.type = "str"
    THEN Len(SelectSeq(description.value, LAMBDA c : c = "."))
    ELSE Len(SelectSeq(description.value, LAMBDA item : item.type = "str" /\ item.value = <<".">>))

DescriptionLength(acc, description) ==
    IF PyLen(description) < 20 THEN Deduct(acc, 40, <<"D","e","s","c","r","i","p","t","i","o","n"," ","t","o","o"," ","s","h","o","r","t">>)
    ELSE IF PyLen(description) > 5000 THEN Deduct(acc, 20, <<"D","e","s","c","r","i","p","t","i","o","n"," ","t","o","o"," ","l","o","n","g">>) ELSE acc

DescriptionSentences(acc, description) ==
    IF description.type = "dict" THEN Failed(acc, <<"'","d","i","c","t","'"," ","o","b","j","e","c","t"," ","h","a","s"," ","n","o"," ","a","t","t","r","i","b","u","t","e"," ","'","c","o","u","n","t","'">>)
    ELSE IF Periods(description) < 2
         THEN Deduct(acc, 15, <<"D","e","s","c","r","i","p","t","i","o","n"," ","s","h","o","u","l","d"," ","h","a","v","e"," ","m","u","l","t","i","p","l","e"," ","s","e","n","t","e","n","c","e","s">>) ELSE acc

\* lines 503-524
_assess_description_quality(description) ==
    CASE ~Truthy(description) -> Ungraded(0, <<"M","i","s","s","i","n","g"," ","d","e","s","c","r","i","p","t","i","o","n">>, <<"F">>)
      [] ~HasLen(description) -> Failed(Assessing @@ [grade |-> <<"F">>], NoLen(description))
      [] OTHER -> Graded(DescriptionSentences(DescriptionLength(Assessing, description), description))

\* lines 542-547 for one keyword
KeywordAssessed(acc, keyword) ==
    CASE ~HasLen(keyword) -> Failed(acc, NoLen(keyword))
      [] PyLen(keyword) < 2 -> Deduct(acc, 10, <<"K","e","y","w","o","r","d"," ","t","o","o"," ","s","h","o","r","t",":"," ">> \o <<"\"">> \o Format(keyword) \o <<"\"">>)
      [] PyLen(keyword) > 50 -> Deduct(acc, 5, <<"K","e","y","w","o","r","d"," ","t","o","o"," ","l","o","n","g",":"," ">> \o <<"\"">> \o Format(keyword) \o <<"\"">>)
      [] OTHER -> acc

RECURSIVE KeywordQualityFrom(_, _)
KeywordQualityFrom(acc, keywords) ==
    IF keywords = <<>> \/ acc.raised # <<>> THEN acc
    ELSE KeywordQualityFrom(KeywordAssessed(acc, Head(keywords)), Tail(keywords))

KeywordCount(acc, keywords) ==
    IF PyLen(keywords) < 3 THEN Deduct(acc, 30, <<"T","o","o"," ","f","e","w"," ","k","e","y","w","o","r","d","s">>)
    ELSE IF PyLen(keywords) > 20 THEN Deduct(acc, 20, <<"T","o","o"," ","m","a","n","y"," ","k","e","y","w","o","r","d","s">>) ELSE acc

\* lines 526-551
_assess_keyword_quality(keywords) ==
    CASE ~Truthy(keywords) -> Ungraded(50, <<"N","o"," ","k","e","y","w","o","r","d","s"," ","p","r","o","v","i","d","e","d">>, <<"C">>)
      [] ~HasLen(keywords) -> Failed(Assessing @@ [grade |-> <<"F">>], NoLen(keywords))
      [] OTHER -> Graded(KeywordQualityFrom(KeywordCount(Assessing, keywords), Items(keywords)))

\* datetime.fromisoformat on the texts the model feeds it: a text of the
\* shape dddd-dd-dd parses iff it is a calendar date, any other text of the
\* pool raises ValueError
fromisoformat(s) == dateutil_parse(s)

\* lines 561-575 on a date that is a string
DateAssessed(acc, date, this_year) ==
    IF ~fromisoformat(date).ok
    THEN [acc EXCEPT !.score = 0, !.issues = Append(@, <<"I","n","v","a","l","i","d"," ","d","a","t","e"," ","f","o","r","m","a","t">>)]
    ELSE IF fromisoformat(date).year < 1900 THEN Deduct(acc, 30, <<"D","a","t","e"," ","t","o","o"," ","e","a","r","l","y">>)
    ELSE IF fromisoformat(date).year > this_year + 1 THEN Deduct(acc, 30, <<"D","a","t","e"," ","i","n"," ","f","u","t","u","r","e">>)
    ELSE acc

\* lines 553-579
_assess_date_quality(date, this_year) ==
    CASE ~Truthy(date) -> Ungraded(0, <<"M","i","s","s","i","n","g"," ","p","u","b","l","i","c","a","t","i","o","n"," ","d","a","t","e">>, <<"F">>)
      [] date.type = "str" -> Graded(DateAssessed(Assessing, date.value, this_year))
      [] OTHER -> Failed(Assessing @@ [grade |-> <<"F">>], AttributeError(date, <<"r","e","p","l","a","c","e">>))

quality_licenses == {<<"c","c","-","z","e","r","o">>, <<"c","c","-","b","y","-","4",".","0">>, <<"c","c","-","b","y","-","s","a","-","4",".","0">>, <<"m","i","t">>, <<"a","p","a","c","h","e","-","2",".","0">>, <<"g","p","l","-","3",".","0">>}

\* lines 581-591
_assess_license_quality(license) ==
    CASE ~Truthy(license) -> Ungraded(0, <<"M","i","s","s","i","n","g"," ","l","i","c","e","n","s","e">>, <<"F">>)
      [] IsOneOf(license, quality_licenses) ->
             [score |-> 100, issues |-> <<>>, grade |-> <<"A">>, raised |-> <<>>]
      [] OTHER -> Ungraded(50, <<"U","n","r","e","c","o","g","n","i","z","e","d"," ","l","i","c","e","n","s","e",":"," ">> \o Format(license), <<"C">>)

\* {'score': ..., 'issues': ..., 'grade': ...}
Assessment(a) == [score |-> a.score, issues |-> a.issues, grade |-> a.grade]

\* lines 222-225
QualityGrade(score) ==
    IF score >= 900 THEN <<"E","X","C","E","L","L","E","N","T">> ELSE IF score >= 750 THEN <<"G","O","O","D">>
    ELSE IF score >= 600 THEN <<"F","A","I","R">> ELSE <<"P","O","O","R">>

\* the first exception of the six assessments, which are made in this order
FirstRaised(texts) ==
    IF \E i \in 1..Len(texts) : texts[i] # <<>>
    THEN texts[CHOOSE i \in 1..Len(texts) : texts[i] # <<>> /\ \A j \in 1..(i - 1) : texts[j] = <<>>]
    ELSE <<>>

\* lines 198-227
QualityMetrics(title, creator, description, keyword, date, license) ==
    [raised |-> FirstRaised(<<title.raised, creator.raised, description.raised,
                              keyword.raised, date.raised, license.raised>>),
     title_quality |-> Assessment(title),
     creator_quality |-> Assessment(creator),
     description_quality |-> Assessment(description),
     keyword_quality |-> Assessment(keyword),
     date_quality |-> Assessment(date),
     license_quality |-> Assessment(license),
     overall_quality_score |->
         RoundDiv((title.score + creator.score + description.score
                   + keyword.score + date.score + license.score) * 10, 6),
     quality_grade |->
         QualityGrade(RoundDiv((title.score + creator.score + description.score
                                + keyword.score + date.score + license.score) * 10, 6))]

\* lines 194-227
_calculate_data_quality_metrics(md, this_year) ==
    QualityMetrics(_assess_title_quality(GetOr(md, <<"t","i","t","l","e">>, PyStr(<<>>))),
                   _assess_creator_quality(GetOr(md, <<"c","r","e","a","t","o","r","s">>, PyList(<<>>))),
                   _assess_description_quality(GetOr(md, <<"d","e","s","c","r","i","p","t","i","o","n">>, PyStr(<<>>))),
                   _assess_keyword_quality(GetOr(md, <<"k","e","y","w","o","r","d","s">>, PyList(<<>>))),
                   _assess_date_quality(GetOr(md, <<"p","u","b","l","i","c","a","t","i","o","n","_","d","a","t","e">>, PyStr(<<>>)), this_year),
                   _assess_license_quality(GetOr(md, <<"l","i","c","e","n","s","e">>, PyStr(<<>>))))

\* lines 594-600: the tags of the elements with text, the root included
_extract_fgdc_field_names(fgdc_content) ==
    IF fgdc_content.parsed
    THEN [i \in 1..Len(SelectSeq(fgdc_content.elements, ElemHasText)) |->
             SelectSeq(fgdc_content.elements, ElemHasText)[i].tag]
    ELSE <<>>

\* lines 602-604
_count_mapped_fields(md) == Len(SelectSeq(Keys(md), LAMBDA k : NotNone(md, k)))

enrichment_fields == <<<<"n","o","t","e","s">>, <<"r","e","l","a","t","e","d","_","i","d","e","n","t","i","f","i","e","r","s">>, <<"c","o","n","t","r","i","b","u","t","o","r","s">>, <<"r","e","f","e","r","e","n","c","e","s">>>>

\* lines 606-611
_calculate_data_enrichment(md) ==
    RoundDiv(Len(SelectSeq(enrichment_fields, LAMBDA f : Filled(md, f))) * 1000, Len(enrichment_fields))

critical_fields == <<<<"t","i","t","l","e">>, <<"c","r","e","a","t","o","r","s">>, <<"p","u","b","l","i","c","a","t","i","o","n","_","d","a","t","e">>, <<"d","e","s","c","r","i","p","t","i","o","n">>>>

\* lines 613-618
_calculate_format_compliance(md) ==
    RoundDiv(Len(SelectSeq(critical_fields, LAMBDA f : Filled(md, f))) * 1000, Len(critical_fields))

\* lines 620-623
_calculate_semantic_accuracy == 850

\* lines 241-248
MappingCompleteness(fgdc_fields, mapped_fields) ==
    IF Len(fgdc_fields) > 0 THEN Nearest(mapped_fields * 1000, Len(fgdc_fields)) ELSE {0}

\* lines 259-265: the sum is exact in binary when the mapping completeness
\* is a whole or a half number
Effectiveness(mapping_completeness, data_enrichment_score, format_compliance, semantic_accuracy) ==
    {[mapping_completeness |-> mapping_completeness,
      data_enrichment_score |-> data_enrichment_score,
      format_compliance |-> format_compliance,
      semantic_accuracy |-> semantic_accuracy,
      overall_effectiveness_score |-> overall_effectiveness_score] :
        overall_effectiveness_score \in
            IF mapping_completeness % 5 = 0
            THEN {RoundDiv(mapping_completeness + data_enrichment_score + format_compliance
                           + semantic_accuracy, 4)}
            ELSE Nearest(mapping_completeness + data_enrichment_score + format_compliance
                         + semantic_accuracy, 4)}

\* lines 229-267
_calculate_transformation_effectiveness(fgdc_content, md) ==
    UNION {Effectiveness(mapping_completeness, _calculate_data_enrichment(md),
                         _calculate_format_compliance(md), _calculate_semantic_accuracy) :
               mapping_completeness \in MappingCompleteness(_extract_fgdc_field_names(fgdc_content),
                                                            _count_mapped_fields(md))}

recommended_fields ==
    <<<<"k","e","y","w","o","r","d","s">>, <<"l","i","c","e","n","s","e">>, <<"a","c","c","e","s","s","_","r","i","g","h","t">>, <<"c","o","m","m","u","n","i","t","i","e","s">>, <<"n","o","t","e","s">>, <<"r","e","l","a","t","e","d","_","i","d","e","n","t","i","f","i","e","r","s">>>>

compliant_licenses == {<<"c","c","-","z","e","r","o">>, <<"c","c","-","b","y","-","4",".","0">>, <<"c","c","-","b","y","-","s","a","-","4",".","0">>, <<"m","i","t">>, <<"a","p","a","c","h","e","-","2",".","0">>, <<"g","p","l","-","3",".","0">>}

\* lines 306-309: any(...) stops at the first community 'pices'; an entry
\* without .get raises before
RECURSIVE PicesFrom(_)
PicesFrom(communities) ==
    IF communities = <<>> THEN [raised |-> <<>>, present |-> FALSE]
    ELSE IF Head(communities).type # "dict"
         THEN [raised |-> AttributeError(Head(communities), <<"g","e","t">>), present |-> FALSE]
         ELSE IF IsOneOf(GetOr(Head(communities).value, <<"i","d","e","n","t","i","f","i","e","r">>, PyNone), {<<"p","i","c","e","s">>})
              THEN [raised |-> <<>>, present |-> TRUE]
              ELSE PicesFrom(Tail(communities))

PicesCommunity(communities) ==
    IF Iterable(communities) THEN PicesFrom(Items(communities))
    ELSE [raised |-> NotIterable(communities), present |-> FALSE]

Checked(flag) == IF flag THEN 1000 ELSE 0

\* lines 272-328
Compliance(md, required, recommended, pices) ==
    [raised |-> pices.raised,
     zenodo_required_fields |-> required,
     zenodo_required_total |-> 4,
     zenodo_required_percentage |-> RoundDiv(required * 1000, 4),
     zenodo_recommended_fields |-> recommended,
     zenodo_recommended_total |-> 6,
     zenodo_recommended_percentage |-> RoundDiv(recommended * 1000, 6),
     pices_community_present |-> pices.present,
     open_access_compliant |-> IsOneOf(GetOr(md, <<"a","c","c","e","s","s","_","r","i","g","h","t">>, PyNone), {<<"o","p","e","n">>}),
     license_compliant |-> IsOneOf(GetOr(md, <<"l","i","c","e","n","s","e">>, PyNone), compliant_licenses),
     overall_compliance_score |->
         RoundDiv(RoundDiv(required * 1000, 4) + RoundDiv(recommended * 1000, 6)
                  + Checked(pices.present)
                  + Checked(IsOneOf(GetOr(md, <<"a","c","c","e","s","s","_","r","i","g","h","t">>, PyNone), {<<"o","p","e","n">>}))
                  + Checked(IsOneOf(GetOr(md, <<"l","i","c","e","n","s","e">>, PyNone), compliant_licenses)), 5)]

\* lines 269-328
_calculate_compliance_metrics(md) ==
    Compliance(md,
               Len(SelectSeq(critical_fields, LAMBDA f : NotNone(md, f))),
               Len(SelectSeq(recommended_fields, LAMBDA f : NotNone(md, f))),
               PicesCommunity(GetOr(md, <<"c","o","m","m","u","n","i","t","i","e","s">>, PyList(<<>>))))

\* lines 330-351: the five category scores, with weights 0.25, 0.20, 0.25,
\* 0.20 and 0.10
_calculate_overall_score(data_preservation, field_coverage, data_quality, transformation_effectiveness, compliance) ==
    Nearest(25 * data_preservation.content_preservation_ratio
            + 20 * field_coverage.weighted_coverage_score
            + 25 * data_quality.overall_quality_score
            + 20 * transformation_effectiveness.overall_effectiveness_score
            + 10 * compliance.overall_compliance_score, 100)

WithoutRaised(r) == [k \in (DOMAIN r) \ {"raised"} |-> r[k]]

\* lines 57-70; the exception of an assessment or of the community check
\* leaves the function
Metrics(file_info, data_preservation, field_coverage, data_quality, transformation_effectiveness, compliance) ==
    IF data_quality.raised # <<>> THEN {[raised |-> data_quality.raised]}
    ELSE IF compliance.raised # <<>> THEN {[raised |-> compliance.raised]}
    ELSE {[raised |-> <<>>,
           file_info |-> file_info,
           data_preservation |-> data_preservation,
           field_coverage |-> field_coverage,
           data_quality |-> WithoutRaised(data_quality),
           transformation_effectiveness |-> transformation_effectiveness,
           compliance |-> WithoutRaised(compliance),
           overall_score |-> overall_score] :
              overall_score \in _calculate_overall_score(data_preservation, field_coverage, data_quality,
                                                         transformation_effectiveness, compliance)}

\* lines 53-70: what the call can return, or the exception that leaves it
calculate_comprehensive_metrics(fgdc_content, zenodo_metadata, file_path, now, this_year) ==
    UNION {Metrics(_analyze_file_info(fgdc_content, zenodo_metadata, file_path, now),
                   data_preservation,
                   _calculate_field_coverage_metrics(zenodo_metadata),
                   _calculate_data_quality_metrics(zenodo_metadata, this_year),
                   transformation_effectiveness,
                   _calculate_compliance_metrics(zenodo_metadata)) :
               data_preservation \in _calculate_data_preservation_metrics(fgdc_content, zenodo_metadata),
               transformation_effectiveness \in
                   _calculate_transformation_effectiveness(fgdc_content, zenodo_metadata)}

(***************************************************************************)
(* Specification SpecScore: a caller scores a record against the FGDC      *)
(* content it came from, fills in a critical field the record lacks and    *)
(* scores again.  root is the FGDC content, metadata the record, arg the   *)
(* file path, frame the records scored so far and returned what the        *)
(* calls gave.                                                             *)
(***************************************************************************)
MaxScored == 2

Element(tag, text) == [tag |-> tag, text |-> text]

\* len() of the content <metadata><tag>text</tag>...</metadata>
RECURSIVE SizeOf(_)
SizeOf(elements) ==
    IF elements = <<>> THEN 0
    ELSE 2 * Len(Head(elements).tag) + 5 + Len(Head(elements).text) + SizeOf(Tail(elements))

Document(children) ==
    [parsed |-> TRUE, size |-> SizeOf(<<Element(<<"m","e","t","a","d","a","t","a">>, <<>>)>> \o children),
     elements |-> <<Element(<<"m","e","t","a","d","a","t","a">>, <<>>)>> \o children]

\* content that is no XML, a citation only, a full record whose abstract is
\* longer than the whole Candidate Record, and elements without text
FgdcContents ==
    <<[parsed |-> FALSE, size |-> 9, elements |-> <<>>],
      Document(<<Element(<<"t","i","t","l","e">>, <<"S","e","a"," ","I","c","e"," ","E","x","t","e","n","t">>), Element(<<"o","r","i","g","i","n">>, <<"N","O","A","A">>)>>),
      Document(<<Element(<<"t","i","t","l","e">>, <<" ","S","e","a"," ","I","c","e"," ","E","x","t","e","n","t"," ">>), Element(<<"o","r","i","g","i","n">>, <<"N","O","A","A">>),
                 Element(<<"o","r","i","g","i","n">>, <<"P","I","C","E","S">>), Element(<<"p","u","b","d","a","t","e">>, <<"2","0","0","4">>),
                 Element(<<"a","b","s","t","r","a","c","t">>, TitleOfLength(300)), Element(<<"p","u","r","p","o","s","e">>, <<"M","o","n","i","t","o","r","i","n","g",".">>),
                 Element(<<"t","h","e","m","e","k","e","y">>, <<"s","e","a"," ","i","c","e">>), Element(<<"t","h","e","m","e","k","e","y">>, <<"o","c","e","a","n">>),
                 Element(<<"p","l","a","c","e","k","e","y">>, <<"N","o","r","t","h"," ","P","a","c","i","f","i","c">>), Element(<<"a","c","c","c","o","n","s","t">>, <<"N","o","n","e">>),
                 Element(<<"u","s","e","c","o","n","s","t">>, <<" "," ">>), Element(<<"w","e","s","t","b","c">>, <<"1","7","0">>),
                 Element(<<"e","a","s","t","b","c">>, <<"-","1","7","0">>), Element(<<"m","e","t","d">>, <<"2","0","0","4","0","3","0","1">>)>>),
      Document(<<Element(<<"t","i","t","l","e">>, <<" "," ">>), Element(<<"a","b","s","t","r","a","c","t">>, <<>>)>>)>>

\* records of the validator section, and records whose assessments reach
\* the ends of their scales
ScoredDeviations ==
    Deviations \o
    <<<<<<"c","r","e","a","t","o","r","s">>, PyList(Repeated(PyDict(<<>>), 16))>>,
      <<<<"c","r","e","a","t","o","r","s">>, PyList(<<Creator(PyStr(<<"N","O","A","A">>)), Creator(PyStr(<<"L","i">>)), Creator(PyInt(5))>>)>>,
      <<<<"t","i","t","l","e">>, PyStr(<<"s","e","a"," ","i","c","e",".">>)>>,
      <<<<"d","e","s","c","r","i","p","t","i","o","n">>, PyStr(<<"S","h","o","r","t">>)>>,
      <<<<"d","e","s","c","r","i","p","t","i","o","n">>, PyList(<<PyStr(<<".">>), PyStr(<<".">>)>>)>>,
      <<<<"k","e","y","w","o","r","d","s">>, PyList(<<PyStr(<<"a">>), PyStr(<<"s","e","a"," ","i","c","e">>), PyStr(<<"o","c","e","a","n">>), PyStr(TitleOfLength(51))>>)>>,
      <<<<"p","u","b","l","i","c","a","t","i","o","n","_","d","a","t","e">>, PyStr(<<"1","8","5","0","-","0","1","-","0","1">>)>>,
      <<<<"p","u","b","l","i","c","a","t","i","o","n","_","d","a","t","e">>, PyStr(<<"2","0","3","0","-","0","1","-","0","1">>)>>,
      <<<<"l","i","c","e","n","s","e">>, PyStr(<<"p","r","o","p","r","i","e","t","a","r","y">>)>>, <<<<"l","i","c","e","n","s","e">>, Absent>>,
      <<<<"a","c","c","e","s","s","_","r","i","g","h","t">>, PyStr(<<"c","l","o","s","e","d">>)>>,
      <<<<"n","o","t","e","s">>, PyStr(TitleOfLength(120))>>>>

ScoredRecord(deviation) == PyDict(With(BaseRecord, deviation[1], deviation[2]))

\* what a caller fills a missing critical field with
CriticalValues(field) ==
    CASE field = <<"t","i","t","l","e">> ->
             <<PyStr(<<"S","e","a"," ","I","c","e"," ","E","x","t","e","n","t">>), PyStr(<<"s","e","a"," ","i","c","e",".">>), PyStr(<<>>), PyNone, PyInt(5)>>
      [] field = <<"c","r","e","a","t","o","r","s">> ->
             <<PyList(<<Creator(PyStr(<<"D","o","e",","," ","J","a","n","e">>))>>), PyList(Repeated(PyDict(<<>>), 16)),
               PyList(<<>>), PyList(<<PyStr(<<"N","O","A","A">>)>>)>>
      [] field = <<"p","u","b","l","i","c","a","t","i","o","n","_","d","a","t","e">> ->
             <<PyStr(<<"2","0","0","4","-","0","3","-","0","1">>), PyStr(<<"a","b","c","d","-","0","1","-","0","1">>), PyStr(<<"1","8","5","0","-","0","1","-","0","1">>), PyInt(2004)>>
      [] OTHER ->
             <<PyStr(<<"M","o","n","t","h","l","y"," ","s","e","a"," ","i","c","e"," ","e","x","t","e","n","t","."," ","G","r","i","d","d","e","d",".">>), PyStr(<<"S","h","o","r","t">>), PyStr(<<>>)>>

InitScore ==
    /\ pc = "scorer"
    /\ \E c \in 1..Len(FgdcContents) : root = FgdcContents[c]
    /\ \E d \in 1..Len(ScoredDeviations) : metadata = ScoredRecord(ScoredDeviations[d])
    /\ arg \in JsonPaths
    /\ ret = Pending
    /\ now_year = 2025
    /\ frame = <<>>
    /\ warnings = <<>>
    /\ errors = <<>>
    /\ date_formats = <<>>
    /\ license_detected = 0
    /\ bbox_issues = <<>>
    /\ validation_results = <<>>
    /\ clock = 0
    /\ returned = <<>>

\* calculator.calculate_comprehensive_metrics(fgdc_content, zenodo_metadata, file_path)
CalculateMetrics ==
    /\ pc = "scorer"
    /\ Len(returned) < MaxScored
    /\ \E now \in {clock, clock + 1} :
           /\ ret' \in calculate_comprehensive_metrics(root, metadata.value, arg, now, now_year)
           /\ returned' = Append(returned, ret')
           /\ clock' = now
    /\ frame' = Append(frame, metadata)
    /\ UNCHANGED <<pc, root, arg, metadata, now_year, warnings, errors, date_formats,
                   license_detected, bbox_issues, validation_results>>

\* the caller's next record: the same with one missing critical field filled in
FillCriticalField ==
    /\ pc = "scorer"
    /\ returned # <<>>
    /\ Len(returned) < MaxScored
    /\ \E f \in 1..Len(critical_fields) :
           /\ critical_fields[f] \notin DOMAIN metadata.value
           /\ \E v \in 1..Len(CriticalValues(critical_fields[f])) :
                  metadata' = PyDict(Put(metadata.value, critical_fields[f],
                                         CriticalValues(critical_fields[f])[v]))
    /\ UNCHANGED <<pc, root, arg, ret, now_year, frame, warnings, errors, date_formats,
                   license_detected, bbox_issues, validation_results, clock, returned>>

NextScore == CalculateMetrics \/ FillCriticalField

SpecScore == InitScore /\ [][NextScore]_vars


(***************************************************************************)
(* dto.py: merge_related_identifiers(metadata, related_identifiers)        *)
(***************************************************************************)
\* (item.get("identifier"), item.get("relation"))
PairOf(item) == <<Get(item, "identifier"), Get(item, "relation")>>

\* lines 286-291: identifier_set holds the pairs of `existing` throughout
RECURSIVE MergeInto(_, _)
MergeInto(existing, related_identifiers) ==
    IF related_identifiers = <<>> THEN existing
    ELSE IF \E i \in 1..Len(existing) : PairOf(existing[i]) = PairOf(Head(related_identifiers))
         THEN MergeInto(existing, Tail(related_identifiers))
         ELSE MergeInto(Append(existing, Head(related_identifiers)), Tail(related_identifiers))

\* lines 286-291 without identifier_set.add(key): every incoming entry is
\* compared with the entries that were there before the call only
RECURSIVE MergeFresh(_, _)
MergeFresh(existing, related_identifiers) ==
    IF related_identifiers = <<>> THEN <<>>
    ELSE IF \E i \in 1..Len(existing) : PairOf(existing[i]) = PairOf(Head(related_identifiers))
         THEN MergeFresh(existing, Tail(related_identifiers))
         ELSE <<Head(related_identifiers)>> \o MergeFresh(existing, Tail(related_identifiers))

\* list(metadata.get("related_identifiers") or [])
ExistingOf(metadata_) ==
    IF Truthy(GetOr(metadata_, "related_identifiers", PyNone))
    THEN metadata_.related_identifiers.value
    ELSE <<>>

merge_related_identifiers_NoAdd(metadata_, related_identifiers) ==
    Put(metadata_, "related_identifiers",
        PyList(ExistingOf(metadata_) \o MergeFresh(ExistingOf(metadata_), related_identifiers)))

merge_related_identifiers(metadata_, related_identifiers) ==
    Put(metadata_, "related_identifiers",
        PyList(MergeInto(ExistingOf(metadata_), related_identifiers)))

\* BibliographicLink.to_related_identifier, lines 61-70
to_related_identifier(link) ==
    WithKey(WithKey([relation |-> link.relation, identifier |-> link.identifier,
                     resource_type |-> <<"d","a","t","a","s","e","t">>],
                    "scheme", IF Falsy(GetOr(link, "scheme", None)) THEN NoElem ELSE link.scheme),
            "description", IF Falsy(GetOr(link, "notes", None)) THEN NoElem ELSE link.notes)

(***************************************************************************)
(* Specification SpecMerge: a caller merges lists of related identifiers   *)
(* into one metadata mapping, one call after the other.  metadata is the   *)
(* caller's mapping, returned the lists handed over so far and frame the   *)
(* related_identifiers the mapping held after each call.                   *)
(***************************************************************************)
\* calls of merge_related_identifiers on one mapping
MaxMerges == 2

\* entries: a link's payload, the same pair with another scheme, the same
\* identifier under another relation, an entry without relation, one
\* without identifier
MergeEntries ==
    <<to_related_identifier(Put(Link, "scheme", <<"d","o","i">>)),
      to_related_identifier(Put(Link, "scheme", <<"u","r","l">>)),
      [identifier |-> <<"1","0",".","1","2","3","4","/","e","x","a","m","p","l","e">>, relation |-> <<"r","e","f","e","r","e","n","c","e","s">>],
      [identifier |-> <<"1","0",".","1","2","3","4","/","o","t","h","e","r">>],
      [relation |-> <<"r","e","f","e","r","e","n","c","e","s">>]>>

IncomingLists ==
    {<<>>}
      \cup {<<MergeEntries[i]>> : i \in 1..Len(MergeEntries)}
      \cup {<<MergeEntries[i], MergeEntries[j]>> : i, j \in 1..Len(MergeEntries)}

\* what the mapping holds before the first call
MergedMetadata ==
    <<[title |-> <<"S","a","m","p","l","e">>],
     [title |-> <<"S","a","m","p","l","e">>, related_identifiers |-> PyNone],
     [title |-> <<"S","a","m","p","l","e">>, related_identifiers |-> PyList(<<>>)],
     [title |-> <<"S","a","m","p","l","e">>, related_identifiers |-> PyList(<<MergeEntries[1]>>)],
     [title |-> <<"S","a","m","p","l","e">>, related_identifiers |-> PyList(<<MergeEntries[3], MergeEntries[2]>>)],
     [title |-> <<"S","a","m","p","l","e">>, related_identifiers |-> PyList(<<MergeEntries[4], MergeEntries[4]>>)]>>

InitMerge ==
    /\ pc = "merge"
    /\ \E m \in 1..Len(MergedMetadata) : metadata = MergedMetadata[m]
    /\ root = ExistingOf(metadata)
    /\ returned = <<>>
    /\ frame = <<>>
    /\ ret = Pending
    /\ arg = None
    /\ now_year = 2025
    /\ warnings = <<>>
    /\ errors = <<>>
    /\ date_formats = <<>>
    /\ license_detected = 0
    /\ bbox_issues = <<>>
    /\ validation_results = <<>>
    /\ clock = 0

\* merge_related_identifiers(metadata, related_identifiers): in place, returns None
MergeRelatedIdentifiers ==
    /\ pc = "merge"
    /\ Len(returned) < MaxMerges
    /\ \E related_identifiers \in IncomingLists :
           /\ metadata' = merge_related_identifiers(metadata, related_identifiers)
           /\ returned' = Append(returned, related_identifiers)
           /\ frame' = Append(frame, ExistingOf(metadata'))
    /\ ret' = None
    /\ UNCHANGED <<pc, root, arg, now_year, warnings, errors, date_formats, license_detected,
                   bbox_issues, validation_results, clock>>

NextMerge == MergeRelatedIdentifiers

SpecMerge == InitMerge /\ [][NextMerge]_vars

(***************************************************************************)
(* dto.py on a heap.  The mutable objects of a DTO (the zenodo_metadata    *)
(* dict, the audit_trail dict and the list of events of each stage) are    *)
(* entries of a heap, addressed by their position; a DTO holds the         *)
(* addresses of its two dicts, and an audit_trail dict holds the address   *)
(* of the list of each stage.  Attachments and links are tuples of frozen  *)
(* dataclasses: values.  An operation maps a heap to the heap after it and *)
(* the DTO it returns.                                                     *)
(***************************************************************************)
DictObject(mapping) == [kind |-> "dict", value |-> mapping]

TrailObject(lists) == [kind |-> "trail", value |-> lists]

ListObject(items) == [kind |-> "list", value |-> items]

\* the dataclass constructor: __post_init__ changes self.zenodo_metadata in place
ConstructOnHeap(heap, fields) ==
    [heap |-> [heap EXCEPT ![fields.zenodo_metadata] = DictObject(__post_init__(@.value))],
     dto |-> fields]

\* payload.update(overrides), line 148
PayloadOnHeap(self, overrides, zenodo_metadata, audit_trail) ==
    [fgdc_id |-> GetOr(overrides, "fgdc_id", self.fgdc_id),
     source_path |-> GetOr(overrides, "source_path", self.source_path),
     zenodo_metadata |-> GetOr(overrides, "zenodo_metadata", zenodo_metadata),
     attachments |-> GetOr(overrides, "attachments", self.attachments),
     bibliographic_links |-> GetOr(overrides, "bibliographic_links", self.bibliographic_links),
     audit_trail |-> GetOr(overrides, "audit_trail", audit_trail)]

\* copy, lines 138-149: dict(self.zenodo_metadata) and dict(self.audit_trail)
\* are new dicts; the lists of the audit trail are shared
CopyOnHeap(heap, self, overrides) ==
    ConstructOnHeap(heap \o <<heap[self.zenodo_metadata], heap[self.audit_trail]>>,
                    PayloadOnHeap(self, overrides, Len(heap) + 1, Len(heap) + 2))

WithAttachmentsOnHeap(heap, self, attachments) ==
    CopyOnHeap(heap, self, [attachments |-> attachments])

WithBibliographicLinksOnHeap(heap, self, links) ==
    CopyOnHeap(heap, self, [bibliographic_links |-> links])

\* the events the stage holds: audit_trail.get(stage) or []
EventsOnHeap(heap, trail, stage) ==
    IF stage \in DOMAIN heap[trail].value THEN heap[heap[trail].value[stage]].value ELSE <<>>

\* line 169 without list(): stage_events is the list of the audit trail
\* itself when the stage holds events
StageEventsOnHeap_Shared(heap, trail, stage) ==
    IF EventsOnHeap(heap, trail, stage) # <<>>
    THEN [heap |-> heap, at |-> heap[trail].value[stage]]
    ELSE [heap |-> Append(heap, ListObject(<<>>)), at |-> Len(heap) + 1]

\* line 169: stage_events = list(audit_trail.get(stage) or []), a new list
StageEventsOnHeap(heap, trail, stage) ==
    [heap |-> Append(heap, ListObject(EventsOnHeap(heap, trail, stage))), at |-> Len(heap) + 1]

\* lines 170-172: the event is appended to stage_events, stage_events is
\* stored in the new audit trail and the copy is made with it
AppendedOnHeap(staged, self, trail, stage, event) ==
    CopyOnHeap([staged.heap EXCEPT ![staged.at] = ListObject(Append(@.value, event)),
                                   ![trail] = TrailObject(Put(@.value, stage, staged.at))],
               self, [audit_trail |-> trail])

\* with_audit_event, lines 168-172: audit_trail = dict(self.audit_trail)
WithAuditEventOnHeap(heap, self, stage, event) ==
    AppendedOnHeap(StageEventsOnHeap(Append(heap, heap[self.audit_trail]), Len(heap) + 1, stage),
                   self, Len(heap) + 1, stage, event)

\* build_canonical_dto, lines 263-272: dict(zenodo_metadata) and
\* dict(audit_trail or {}) of the caller's objects
BuildOnHeap(heap, source_path, zenodo_metadata, audit_trail, attachments, links) ==
    ConstructOnHeap(heap \o <<heap[zenodo_metadata], heap[audit_trail]>>,
                    [fgdc_id |-> _normalise_fgdc_id(source_path), source_path |-> source_path,
                     zenodo_metadata |-> Len(heap) + 1, attachments |-> AttachmentObjs(attachments),
                     bibliographic_links |-> links, audit_trail |-> Len(heap) + 2])

\* what a DTO holds: its fields with the dicts and lists read from the heap
DeepOnHeap(heap, dto) ==
    [zenodo_metadata |-> heap[dto.zenodo_metadata].value,
     audit_trail |-> [stage \in DOMAIN heap[dto.audit_trail].value |->
                          heap[heap[dto.audit_trail].value[stage]].value],
     attachments |-> dto.attachments,
     bibliographic_links |-> dto.bibliographic_links]

(***************************************************************************)
(* Specification SpecClone: a DTO is built from a caller's metadata and    *)
(* audit trail, and DTOs are cloned from the DTOs that exist.  frame is    *)
(* the heap; returned lists the DTOs in the order they were made, each     *)
(* with the call that made it and with what it held when it was returned;  *)
(* ret is the DTO returned last.                                           *)
(***************************************************************************)
\* DTOs made from one source record
MaxClones == 3

TrailStages == {"bibliographic_linkage", "validation"}

TrailEvents == {[applied_at |-> <<"2","0","2","5","-","1","0","-","1","5">>], [applied_at |-> <<"2","0","2","5","-","1","0","-","1","6">>, accepted_links |-> <<>>]}

\* the caller's objects: metadata, and an audit trail without or with events
CallerHeaps ==
    {<<DictObject(zenodo_metadata), TrailObject(<<>>)>> :
        zenodo_metadata \in {[title |-> <<"S","a","m","p","l","e">>], [title |-> <<"S","a","m","p","l","e">>, publisher |-> LegacyPublisher]}}
      \cup {<<DictObject(zenodo_metadata), TrailObject([bibliographic_linkage |-> 3]),
              ListObject(<<[applied_at |-> <<"2","0","2","5","-","1","0","-","1","4">>]>>)>> :
                zenodo_metadata \in {[title |-> <<"S","a","m","p","l","e">>, publisher |-> LegacyPublisher]}}

InitClone ==
    /\ pc = "clone_new"
    /\ frame \in CallerHeaps
    /\ returned = <<>>
    /\ ret = Pending
    /\ root = <<>>
    /\ metadata = Unbound
    /\ arg = None
    /\ now_year = 2025
    /\ warnings = <<>>
    /\ errors = <<>>
    /\ date_formats = <<>>
    /\ license_detected = 0
    /\ bbox_issues = <<>>
    /\ validation_results = <<>>
    /\ clock = 0

CloneFrame == <<root, metadata, arg, now_year, warnings, errors, date_formats, license_detected, bbox_issues, validation_results, clock>>

\* the call returns: the heap is as the call left it
MadeOnHeap(made, op, parent, stage, event) ==
    /\ frame' = made.heap
    /\ ret' = made.dto
    /\ returned' = Append(returned, [dto |-> made.dto, born |-> DeepOnHeap(made.heap, made.dto),
                                     op |-> op, parent |-> parent, stage |-> stage,
                                     event |-> event])

CloneBuild ==
    /\ pc = "clone_new"
    /\ \E attachments \in RawAttachments, links \in LinkLists :
           MadeOnHeap(BuildOnHeap(frame, <<"F","G","D","C","/","s","a","m","p","l","e",".","x","m","l">>, 1, 2, attachments, links),
                      "build_canonical_dto", 0, "", <<>>)
    /\ pc' = "clone"
    /\ UNCHANGED CloneFrame

CloneCopy ==
    /\ pc = "clone" /\ Len(returned) < MaxClones
    /\ \E p \in 1..Len(returned) :
           MadeOnHeap(CopyOnHeap(frame, returned[p].dto, EmptyMapping), "copy", p, "", <<>>)
    /\ UNCHANGED pc
    /\ UNCHANGED CloneFrame

CloneWithAttachments ==
    /\ pc = "clone" /\ Len(returned) < MaxClones
    /\ \E p \in 1..Len(returned), attachments \in AttachmentLists :
           MadeOnHeap(WithAttachmentsOnHeap(frame, returned[p].dto, attachments),
                      "with_attachments", p, "", <<>>)
    /\ UNCHANGED pc
    /\ UNCHANGED CloneFrame

CloneWithBibliographicLinks ==
    /\ pc = "clone" /\ Len(returned) < MaxClones
    /\ \E p \in 1..Len(returned), links \in LinkLists :
           MadeOnHeap(WithBibliographicLinksOnHeap(frame, returned[p].dto, links),
                      "with_bibliographic_links", p, "", <<>>)
    /\ UNCHANGED pc
    /\ UNCHANGED CloneFrame

CloneWithAuditEvent ==
    /\ pc = "clone" /\ Len(returned) < MaxClones
    /\ \E p \in 1..Len(returned), stage \in TrailStages, event \in TrailEvents :
           MadeOnHeap(WithAuditEventOnHeap(frame, returned[p].dto, stage, event),
                      "with_audit_event", p, stage, event)
    /\ UNCHANGED pc
    /\ UNCHANGED CloneFrame

NextClone ==
    \/ CloneBuild
    \/ CloneCopy
    \/ CloneWithAttachments
    \/ CloneWithBibliographicLinks
    \/ CloneWithAuditEvent

SpecClone == InitClone /\ [][NextClone]_vars

(***************************************************************************)
(* matching/engine.py.  A similarity is a fraction <<numerator,            *)
(* denominator>>; a score is a whole number of ten-thousandths, the        *)
(* rounding to four decimals giving either neighbour at an exact tie       *)
(* (Nearest).                                                              *)
(***************************************************************************)
\* _normalise_text, lines 16-21: lower-cased, stripped, whitespace runs
\* turned into one space
_normalise_text(value) == IF Falsy(value) THEN <<>> ELSE JoinWords(Words(Lower(value)))

\* length of the common run of a from i and b from j, within a[..ahi], b[..bhi]
RECURSIVE RunLength(_, _, _, _, _, _)
RunLength(a, b, i, j, ahi, bhi) ==
    IF i > ahi \/ j > bhi \/ a[i] # b[j] THEN 0
    ELSE 1 + RunLength(a, b, i + 1, j + 1, ahi, bhi)

Largest(lengths) == CHOOSE k \in lengths : \A m \in lengths : m <= k

\* the length of the longest common run of a[alo..ahi] and b[blo..bhi]
LongestRun(a, b, alo, ahi, blo, bhi) ==
    IF alo > ahi \/ blo > bhi THEN 0
    ELSE Largest({RunLength(a, b, i, j, ahi, bhi) : i \in alo..ahi, j \in blo..bhi})

\* SequenceMatcher.find_longest_match: of the longest runs the one that
\* starts earliest in a and, of those, earliest in b
RunStartA(a, b, alo, ahi, blo, bhi, k) ==
    CHOOSE i \in alo..ahi :
        /\ \E j \in blo..bhi : RunLength(a, b, i, j, ahi, bhi) = k
        /\ \A i2 \in alo..(i - 1) : \A j \in blo..bhi : RunLength(a, b, i2, j, ahi, bhi) # k

RunStartB(a, b, i, ahi, blo, bhi, k) ==
    CHOOSE j \in blo..bhi :
        /\ RunLength(a, b, i, j, ahi, bhi) = k
        /\ \A j2 \in blo..(j - 1) : RunLength(a, b, i, j2, ahi, bhi) # k

\* SequenceMatcher.get_matching_blocks: the characters in matching blocks,
\* the longest run first and then the parts to its left and to its right
RECURSIVE MatchingChars(_, _, _, _, _, _)
RECURSIVE MatchingAround(_, _, _, _, _, _, _, _, _)
MatchingAround(a, b, alo, ahi, blo, bhi, i, j, k) ==
    k + MatchingChars(a, b, alo, i - 1, blo, j - 1)
      + MatchingChars(a, b, i + k, ahi, j + k, bhi)

RECURSIVE MatchingFrom(_, _, _, _, _, _, _, _)
MatchingFrom(a, b, alo, ahi, blo, bhi, i, k) ==
    MatchingAround(a, b, alo, ahi, blo, bhi, i, RunStartB(a, b, i, ahi, blo, bhi, k), k)

RECURSIVE MatchingOf(_, _, _, _, _, _, _)
MatchingOf(a, b, alo, ahi, blo, bhi, k) ==
    IF k = 0 THEN 0
    ELSE MatchingFrom(a, b, alo, ahi, blo, bhi, RunStartA(a, b, alo, ahi, blo, bhi, k), k)

MatchingChars(a, b, alo, ahi, blo, bhi) ==
    MatchingOf(a, b, alo, ahi, blo, bhi, LongestRun(a, b, alo, ahi, blo, bhi))

\* _sequence_similarity, lines 24-27: SequenceMatcher(None, a, b).ratio()
\* is 2.0 * matches / (len(a) + len(b))
_sequence_similarity(a, b) ==
    IF a = <<>> \/ b = <<>> THEN <<0, 1>>
    ELSE <<2 * MatchingChars(a, b, 1, Len(a), 1, Len(b)), Len(a) + Len(b)>>

\* {_normalise_text(name) for name in names if name}
NormalisedNames(names) ==
    {_normalise_text(names[i]) : i \in {n \in 1..Len(names) : ~Falsy(names[n])}}

\* _creator_similarity, lines 30-39
_creator_similarity(record_creators, candidate_creators) ==
    IF record_creators = <<>> \/ candidate_creators = <<>> THEN <<0, 1>>
    ELSE IF NormalisedNames(record_creators) = {} \/ NormalisedNames(candidate_creators) = {}
    THEN <<0, 1>>
    ELSE <<Cardinality(NormalisedNames(record_creators) \cap NormalisedNames(candidate_creators)),
           Cardinality(NormalisedNames(record_creators) \cup NormalisedNames(candidate_creators))>>

\* the engine after __init__ with the default weights (hundredths) and an
\* acceptance threshold (ten-thousandths), lines 68-86
MatchingEngine(acceptance_threshold) ==
    [title_weight |-> 60, abstract_weight |-> 25, creator_weight |-> 15,
     acceptance_threshold |-> acceptance_threshold]

\* round(score, 4) of a similarity, lines 112-114
Rounded4(similarity) == Nearest(10000 * similarity[1], similarity[2])

\* round(weighted_score, 4), lines 105-109 and 120; normalised_weights are
\* the weights over their total
WeightedScores(self, title_score, abstract_score, creators_score) ==
    Nearest(10000 * (self.title_weight * title_score[1] * abstract_score[2] * creators_score[2]
                     + self.abstract_weight * abstract_score[1] * title_score[2] * creators_score[2]
                     + self.creator_weight * creators_score[1] * title_score[2] * abstract_score[2]),
            (self.title_weight + self.abstract_weight + self.creator_weight)
                * title_score[2] * abstract_score[2] * creators_score[2])

\* lines 111-123: the results the candidate can get
MatchResults(self, candidate, title_score, abstract_score, creators_score) ==
    {[candidate |-> candidate, score |-> score,
      breakdown |-> [title |-> title, abstract |-> abstract, creators |-> creators]] :
        score \in WeightedScores(self, title_score, abstract_score, creators_score),
        title \in Rounded4(title_score), abstract \in Rounded4(abstract_score),
        creators \in Rounded4(creators_score)}

\* lines 101-103
ScoredCandidate(self, record_title, record_description, record_creators, candidate) ==
    MatchResults(self, candidate,
                 _sequence_similarity(record_title, _normalise_text(candidate.title)),
                 _sequence_similarity(record_description, _normalise_text(candidate.abstract)),
                 _creator_similarity(record_creators, candidate.creators))

\* lines 99-123: the lists `results` can be after the loop
RECURSIVE ScoredInOrder(_, _, _, _, _)
ScoredInOrder(self, record_title, record_description, record_creators, candidates) ==
    IF candidates = <<>> THEN {<<>>}
    ELSE {<<result>> \o rest :
            result \in ScoredCandidate(self, record_title, record_description, record_creators,
                                       Head(candidates)),
            rest \in ScoredInOrder(self, record_title, record_description, record_creators,
                                   Tail(candidates))}

\* list.sort(key=lambda item: item.score, reverse=True): stable, a result
\* goes behind the results whose score is not lower
RECURSIVE InsertByScore(_, _)
InsertByScore(sorted, item) ==
    IF sorted = <<>> THEN <<item>>
    ELSE IF Head(sorted).score >= item.score
         THEN <<Head(sorted)>> \o InsertByScore(Tail(sorted), item)
         ELSE <<item>> \o sorted

RECURSIVE SortedByScore(_)
SortedByScore(results) ==
    IF results = <<>> THEN <<>>
    ELSE InsertByScore(SortedByScore(SubSeq(results, 1, Len(results) - 1)), results[Len(results)])

\* [creator.get("name") for creator in record.zenodo_metadata.get("creators", [])]
CreatorNames(creators) == [i \in 1..Len(creators) |-> Get(creators[i], "name")]

\* score_candidates, lines 88-126: the lists the call can return
score_candidates(self, record, candidates) ==
    {SortedByScore(results) :
        results \in ScoredInOrder(self, _normalise_text(Get(record.zenodo_metadata, "title")),
                                  _normalise_text(Get(record.zenodo_metadata, "description")),
                                  CreatorNames(GetOr(record.zenodo_metadata, "creators", <<>>)),
                                  candidates)}

\* line 131
RECURSIVE Confident(_, _)
Confident(self, results) ==
    IF results = <<>> THEN <<>>
    ELSE (IF Head(results).score >= self.acceptance_threshold THEN <<Head(results)>> ELSE <<>>)
             \o Confident(self, Tail(results))

\* line 131 alone: the confident results as they come
filter_confident_Unsorted(self, results) == Confident(self, results)

\* filter_confident, lines 128-133
filter_confident(self, results) == SortedByScore(Confident(self, results))

(***************************************************************************)
(* Specification SpecMatch: one engine scores a list of candidates against *)
(* a record and filters the results.  arg is the engine, root the record,  *)
(* frame the caller's `results`, ret the list returned last and returned   *)
(* the calls made, each with the list it was given and the list it gave.   *)
(***************************************************************************)
\* candidates handed to one score_candidates call
MaxCandidates == 3

MatchCandidate(source, title, creators, abstract) ==
    [source |-> source, identifier |-> <<"1","0",".","1","2","3","4","/","t","e","s","t">>, title |-> title, creators |-> creators,
     abstract |-> abstract]

MatchRecord ==
    build_canonical_dto(<<"F","G","D","C","/","t","e","s","t",".","x","m","l">>,
                        [title |-> <<"O","c","e","a","n"," ","D","a","t","a"," ","S","e","t">>, description |-> <<"S","e","a"," ","i","c","e"," ","2","0","2","0",".">>,
                         creators |-> <<[name |-> <<"J","a","n","e"," ","D","o","e">>], [name |-> <<"J","o","h","n"," ","S","m","i","t","h">>],
                                        [affiliation |-> <<"N","O","A","A">>]>>],
                        <<>>, <<>>)

CandidatePool ==
    <<MatchCandidate(<<"d","a","t","a","c","i","t","e">>, <<"O","c","e","a","n"," ","D","a","t","a"," ","S","e","t">>, <<<<"J","a","n","e"," ","D","o","e">>, <<"J","o","h","n"," ","S","m","i","t","h">>>>, <<"S","e","a"," ","i","c","e"," ","2","0","2","0">>),
      MatchCandidate(<<"c","r","o","s","s","r","e","f">>, <<"O","c","e","a","n"," ","D","a","t","a">>, <<<<"J","a","n","e"," ","D","o","e">>>>, <<"S","u","m","m","a","r","y">>),
      MatchCandidate(<<"d","a","t","a","c","i","t","e">>, <<"O","c","e","a","n"," ","D","a","t","a">>, <<<<"J","a","n","e"," ","D","o","e">>>>, <<"S","u","m","m","a","r","y">>),
      MatchCandidate(<<"c","r","o","s","s","r","e","f">>, <<" ","O","C","E","A","N"," "," ","d","a","t","a"," ","s","e","t">>, <<>>, None),
      MatchCandidate(<<"c","r","o","s","s","r","e","f">>, <<"S","e","a"," ","L","e","v","e","l">>, <<<<"j","a","n","e"," "," ","d","o","e">>, <<>>>>, <<>>)>>

RECURSIVE CandidateLists(_)
CandidateLists(n) ==
    IF n = 0 THEN {<<>>}
    ELSE CandidateLists(n - 1)
           \cup {Append(candidates, CandidatePool[c]) :
                   candidates \in {l \in CandidateLists(n - 1) : Len(l) = n - 1},
                   c \in 1..Len(CandidatePool)}

\* acceptance thresholds: the test's, the default, and the score of a title-only match
AcceptanceThresholds == {5000, 6000, 8000}

InitMatch ==
    /\ pc = "match"
    /\ arg \in {MatchingEngine(t) : t \in AcceptanceThresholds}
    /\ root = MatchRecord
    /\ frame = <<>>
    /\ ret = Pending
    /\ returned = <<>>
    /\ metadata = Unbound
    /\ now_year = 2025
    /\ warnings = <<>>
    /\ errors = <<>>
    /\ date_formats = <<>>
    /\ license_detected = 0
    /\ bbox_issues = <<>>
    /\ validation_results = <<>>
    /\ clock = 0

MatchFrame == <<arg, root, metadata, now_year, warnings, errors, date_formats, license_detected, bbox_issues, validation_results, clock>>

\* results = engine.score_candidates(record, candidates)
ScoreCandidates ==
    /\ pc = "match"
    /\ \E candidates \in CandidateLists(MaxCandidates) :
           /\ ret' \in score_candidates(arg, root, candidates)
           /\ returned' = Append(returned, [op |-> "score_candidates", given |-> candidates,
                                            out |-> ret'])
    /\ frame' = ret'
    /\ pc' = "scored"
    /\ UNCHANGED MatchFrame

ReverseOf(items) == [i \in 1..Len(items) |-> items[Len(items) + 1 - i]]

\* engine.filter_confident(results), the results as returned or in another order
FilterConfident ==
    /\ pc = "scored"
    /\ \E results \in {frame, ReverseOf(frame)} :
           /\ ret' = filter_confident(arg, results)
           /\ returned' = Append(returned, [op |-> "filter_confident", given |-> results,
                                            out |-> ret'])
    /\ pc' = "filtered"
    /\ UNCHANGED frame
    /\ UNCHANGED MatchFrame

NextMatch == ScoreCandidates \/ FilterConfident

SpecMatch == InitMatch /\ [][NextMatch]_vars

(***************************************************************************)
(* Specification SpecCreators: one call of _extract_creators on a tree     *)
(* whose origin elements hold persons, organizations and texts with "and". *)
(***************************************************************************)
CreatorTexts ==
    {<<>>, <<"N","O","A","A">>, <<"S","m","i","t","h",","," ","J","o","h","n">>, <<"J","a","n","e"," ","D","o","e">>, <<"C","h","e","r">>, <<"J","a","n","e"," ","D","o","e"," ","a","n","d"," ","B","o","b"," ","R","o","e">>,
     <<"D","e","p","a","r","t","m","e","n","t"," ","o","f"," ","F","i","s","h","e","r","i","e","s"," ","a","n","d"," ","O","c","e","a","n","s">>, <<"J","a","n","e"," ","D","o","e"," ","A","N","D"," ","N","O","A","A">>, <<"W","o","o","d","s"," ","H","o","l","e"," ","L","a","b">>}

InitCreators ==
    /\ pc = "extract_creators"
    /\ root \in {[origin |-> o] : o \in ListsOver(CreatorTexts, MaxOrigins)}
    /\ now_year = 2025
    /\ metadata = Unbound
    /\ ret = Pending
    /\ frame = <<>>
    /\ warnings = <<>>
    /\ errors = <<>>
    /\ date_formats = <<>>
    /\ license_detected = 0
    /\ bbox_issues = <<>>
    /\ validation_results = <<>>
    /\ clock = 0
    /\ returned = <<>>
    /\ arg = None

\* one call _extract_creators(root, file_path)
CallExtractCreators ==
    /\ pc = "extract_creators"
    /\ Returned(_extract_creators(root))
    /\ pc' = "creators_done"
    /\ UNCHANGED <<root, metadata, frame, date_formats, license_detected, arg, now_year, bbox_issues, validation_results, clock, returned>>

NextCreators == CallExtractCreators

SpecCreators == InitCreators /\ [][NextCreators]_vars

(***************************************************************************)
(* Contributors and related identifiers: _extract_contributors,            *)
(* _extract_related_identifiers and the parts of                           *)
(* _extract_additional_fields, _extract_entity_attribute_info and          *)
(* _extract_distribution_info that append to related_identifiers.  A tree  *)
(* holds the texts of its onlink and crossref elements and of the browsed  *)
(* elements of its browse elements, in document order, and the text of     *)
(* lworkcit, eadetcit, networkr and of the cntper of ptcontac and distrib. *)
(***************************************************************************)
\* urlparse(url): all([result.scheme, result.netloc])
_is_valid_url(url) == HasScheme(url) /\ HasNetloc(url)

\* the characters of the class of url_pattern: letters, digits, the range
\* from "$" to "_" and "!", "*", "\", "(", ")", ","
UrlChars ==
    {LowerChars[i] : i \in 1..26} \cup {UpperChars[i] : i \in 1..26} \cup {Digits[i] : i \in 1..10}
    \cup {"$", "%", "&", "'", "(", ")", "*", "+", ",", "-", ".", "/", ":", ";", "<", "=", ">",
          "?", "@", "[", "\\", "]", "^", "_", "!"}

\* length of http[s]?:// at i, or 0
UrlHead(text, i) ==
    IF OccursAt(text, <<"h","t","t","p","s",":","/","/">>, i) THEN 8
    ELSE IF OccursAt(text, <<"h","t","t","p",":","/","/">>, i) THEN 7
    ELSE 0

\* end of the run of url characters that starts at i (i - 1 if there is none)
RECURSIVE UrlRunEnd(_, _)
UrlRunEnd(text, i) ==
    IF i <= Len(text) /\ text[i] \in UrlChars THEN UrlRunEnd(text, i + 1) ELSE i - 1

\* re.findall(url_pattern, text) from position i on
RECURSIVE UrlsFrom(_, _)
UrlsFrom(text, i) ==
    IF i > Len(text) THEN <<>>
    ELSE IF UrlHead(text, i) > 0 /\ UrlRunEnd(text, i + UrlHead(text, i)) >= i + UrlHead(text, i)
    THEN <<SubSeq(text, i, UrlRunEnd(text, i + UrlHead(text, i)))>>
         \o UrlsFrom(text, UrlRunEnd(text, i + UrlHead(text, i)) + 1)
    ELSE UrlsFrom(text, i + 1)

_extract_urls_from_text(text) == UrlsFrom(text, 1)

RelatedEntry(identifier, relation) == [identifier |-> identifier, relation |-> relation]

\* lines 1017-1025
RECURSIVE OnlinkIdentifiers(_)
OnlinkIdentifiers(onlinks) ==
    IF onlinks = <<>> THEN <<>>
    ELSE (IF onlinks[1] # <<>> /\ _is_valid_url(Strip(onlinks[1]))
          THEN <<RelatedEntry(Strip(onlinks[1]), <<"i","s","A","l","t","e","r","n","a","t","e","I","d","e","n","t","i","f","i","e","r">>)>>
          ELSE <<>>) \o OnlinkIdentifiers(Tail(onlinks))

\* lines 1034-1038
UrlIdentifiers(urls) == [k \in 1..Len(urls) |-> RelatedEntry(urls[k], <<"i","s","R","e","l","a","t","e","d","T","o">>)]

\* lines 1028-1038
RECURSIVE CrossrefIdentifiers(_)
CrossrefIdentifiers(crossrefs) ==
    IF crossrefs = <<>> THEN <<>>
    ELSE (IF crossrefs[1] # <<>>
          THEN UrlIdentifiers(_extract_urls_from_text(Strip(crossrefs[1])))
          ELSE <<>>) \o CrossrefIdentifiers(Tail(crossrefs))

_extract_related_identifiers(tree) ==
    OnlinkIdentifiers(tree.onlink) \o CrossrefIdentifiers(tree.crossref)

\* metadata['related_identifiers'].append({'identifier': elem.text.strip(), 'relation': relation})
\* when the element is there and has text
AppendedEntry(related_ids, elem, relation) ==
    IF HasText(elem) THEN Append(related_ids, RelatedEntry(Strip(elem), relation))
    ELSE related_ids

\* lines 1154-1163
RECURSIVE BrowseIdentifiers(_, _)
BrowseIdentifiers(related_ids, browsed) ==
    IF browsed = <<>> THEN related_ids
    ELSE BrowseIdentifiers(AppendedEntry(related_ids, browsed[1], <<"i","s","D","o","c","u","m","e","n","t","e","d","B","y">>), Tail(browsed))

\* lines 1143-1163 of _extract_additional_fields
LargerWorkAndBrowse(related_ids, tree) ==
    BrowseIdentifiers(AppendedEntry(related_ids, tree.lworkcit, <<"i","s","P","a","r","t","O","f">>), tree.browsed)

\* lines 1366-1373 of _extract_entity_attribute_info
EntityAttributeCitation(related_ids, tree) ==
    AppendedEntry(related_ids, tree.eadetcit, <<"i","s","D","o","c","u","m","e","n","t","e","d","B","y">>)

\* lines 1481-1497 of _extract_distribution_info
NetworkResource(related_ids, tree) ==
    AppendedEntry(related_ids, tree.networkr, <<"i","s","S","u","p","p","l","e","m","e","n","t","e","d","B","y">>)

\* lines 987-1001: the contributor of a formatted name
ContributorOf(formatted, contact_type) ==
    [contributors |-> [k \in 1..Len(formatted.ret) |-> [name |-> formatted.ret[k].name, type |-> contact_type]],
     log |-> formatted.log]

\* cntper is the text of the cntper element of the cntinfo of the contact,
\* NoElem without one
_extract_contact_info(cntper, contact_type) ==
    IF ~HasText(cntper) \/ Strip(cntper) = <<>>
    THEN [contributors |-> <<>>, log |-> <<>>]
    ELSE ContributorOf(_format_creator_name(Strip(cntper)), contact_type)

\* contributors.append(contact), contributors.append(distributor)
BothContacts(contact, distributor) ==
    [contributors |-> contact.contributors \o distributor.contributors,
     log |-> contact.log \o distributor.log]

_extract_contributors(tree) ==
    BothContacts(_extract_contact_info(tree.ptcontac, <<"C","o","n","t","a","c","t","P","e","r","s","o","n">>),
                 _extract_contact_info(tree.distrib, <<"D","i","s","t","r","i","b","u","t","o","r">>))

\* json.dump of the two lists and json.load of the file
RelatedIdentifierJson(rel_id) ==
    PyDict(MappingOf(<<<<<<"i","d","e","n","t","i","f","i","e","r">>, PyStr(rel_id.identifier)>>, <<<<"r","e","l","a","t","i","o","n">>, PyStr(rel_id.relation)>>>>))

ContributorJson(contributor) ==
    PyDict(MappingOf(<<<<<<"n","a","m","e">>, PyStr(contributor.name)>>, <<<<"t","y","p","e">>, PyStr(contributor.type)>>>>))

RecordJson(md) ==
    PyDict(MappingOf(<<<<<<"r","e","l","a","t","e","d","_","i","d","e","n","t","i","f","i","e","r","s">>,
                        PyList([k \in 1..Len(md.related_identifiers) |-> RelatedIdentifierJson(md.related_identifiers[k])])>>,
                      <<<<"c","o","n","t","r","i","b","u","t","o","r","s">>,
                        PyList([k \in 1..Len(md.contributors) |-> ContributorJson(md.contributors[k])])>>>>))

\* lines 147-148 of validate_file on the record
EnumerationsValidated(md) ==
    _validate_contributors(_validate_related_identifiers(Started(RecordJson(md))))

(***************************************************************************)
(* Specification SpecRelated: the steps of _add_optional_fields that write *)
(* contributors and related_identifiers, on base metadata, and the         *)
(* validation of the two lists.                                            *)
(***************************************************************************)
\* onlink and crossref elements per tree
MaxLinks == 1

OnlinkTexts == {<<" ","h","t","t","p",":","/","/","p","i","c","e","s",".","i","n","t","/","d","a","t","a"," ">>, <<"w","w","w",".","p","i","c","e","s",".","i","n","t">>, <<"f","t","p",":","/","/","f","t","p",".","p","i","c","e","s",".","i","n","t","/","a">>}

CrossrefTexts == {<<"S","e","e"," ","h","t","t","p",":","/","/","p","i","c","e","s",".","i","n","t","/","r","e","p","o","r","t",".">>, <<"S","m","i","t","h"," ","2","0","0","4">>, <<"h","t","t","p",":","/","/","/","a","r","c","h","i","v","e">>}

LworkcitTexts == {NoElem, <<" "," ">>, <<"P","I","C","E","S"," ","S","c","i","e","n","t","i","f","i","c"," ","R","e","p","o","r","t">>}

BrowsedLists == {<<>>, <<<<"m","a","p",".","p","n","g">>>>, <<NoElem, <<"h","t","t","p","s",":","/","/","p","i","c","e","s",".","i","n","t","/","m","a","p",".","p","n","g">>>>}

EadetcitTexts == {NoElem, <<"C","o","d","e","b","o","o","k"," ","v","2">>}

NetworkrTexts == {NoElem, <<"h","t","t","p","s",":","/","/","p","i","c","e","s",".","i","n","t","/","d">>, <<"f","t","p",".","p","i","c","e","s",".","i","n","t">>}

PtcontacTexts == {NoElem, <<"J","a","n","e"," ","D","o","e">>, <<"N","O","A","A"," ","F","i","s","h","e","r","i","e","s">>}

DistribTexts == {NoElem, <<"C","h","e","r">>}

RelatedRoots ==
    {[onlink |-> o, crossref |-> c, lworkcit |-> l, browsed |-> b, eadetcit |-> e,
      networkr |-> n, ptcontac |-> p, distrib |-> d] :
        o \in ListsOver(OnlinkTexts, MaxLinks), c \in ListsOver(CrossrefTexts, MaxLinks),
        l \in LworkcitTexts, b \in BrowsedLists, e \in EadetcitTexts, n \in NetworkrTexts,
        p \in PtcontacTexts, d \in DistribTexts}

\* the base metadata of lines 140-154, of which the steps write two keys
InitRelated ==
    /\ pc = "contributors"
    /\ root \in RelatedRoots
    /\ metadata = [related_identifiers |-> <<>>, contributors |-> <<>>]
    /\ now_year = 2025
    /\ ret = Pending
    /\ frame = <<>>
    /\ warnings = <<>>
    /\ errors = <<>>
    /\ date_formats = <<>>
    /\ license_detected = 0
    /\ bbox_issues = <<>>
    /\ validation_results = <<>>
    /\ clock = 0
    /\ returned = <<>>
    /\ arg = None

RelatedFrame == <<root, ret, frame, date_formats, license_detected, arg, now_year, bbox_issues, validation_results, clock, returned>>

\* lines 709-710
ExtractContributors ==
    /\ pc = "contributors"
    /\ metadata' = [metadata EXCEPT !.contributors = _extract_contributors(root).contributors]
    /\ Logged(_extract_contributors(root).log)
    /\ pc' = "related_identifiers"
    /\ UNCHANGED RelatedFrame

\* lines 713-714
ExtractRelatedIdentifiers ==
    /\ pc = "related_identifiers"
    /\ metadata' = [metadata EXCEPT !.related_identifiers = _extract_related_identifiers(root)]
    /\ pc' = "additional"
    /\ UNCHANGED <<RelatedFrame, warnings, errors>>

\* line 725, up to the browse graphic
ExtractAdditionalFields ==
    /\ pc = "additional"
    /\ metadata' = [metadata EXCEPT !.related_identifiers = LargerWorkAndBrowse(@, root)]
    /\ pc' = "entity_attribute"
    /\ UNCHANGED <<RelatedFrame, warnings, errors>>

\* line 1189
ExtractEntityAttributeInfo ==
    /\ pc = "entity_attribute"
    /\ metadata' = [metadata EXCEPT !.related_identifiers = EntityAttributeCitation(@, root)]
    /\ pc' = "distribution"
    /\ UNCHANGED <<RelatedFrame, warnings, errors>>

\* line 1192
ExtractNetworkResource ==
    /\ pc = "distribution"
    /\ metadata' = [metadata EXCEPT !.related_identifiers = NetworkResource(@, root)]
    /\ pc' = "built"
    /\ UNCHANGED <<RelatedFrame, warnings, errors>>

\* the validator on the record that was built
ValidateEnumerations ==
    /\ pc = "built"
    /\ ret' = EnumerationsValidated(metadata)
    /\ pc' = "validated"
    /\ UNCHANGED <<root, metadata, frame, date_formats, license_detected, arg, now_year, bbox_issues, validation_results, clock, returned, warnings, errors>>

NextRelated ==
    \/ ExtractContributors
    \/ ExtractRelatedIdentifiers
    \/ ExtractAdditionalFields
    \/ ExtractEntityAttributeInfo
    \/ ExtractNetworkResource
    \/ ValidateEnumerations

SpecRelated == InitRelated /\ [][NextRelated]_vars

(***************************************************************************)
(* ZenodoAPIClient: _rate_limit_check, _make_request and upload_file.      *)
(* Times are tenths of a second.  A client is the pair of lists            *)
(* request_times and hourly_request_times; the server's answers to the     *)
(* successive attempts of a call are an input of the call.  time.sleep(s)  *)
(* takes s and the statements between two sleeps take no time.             *)
(***************************************************************************)
requests_per_minute == 90

requests_per_hour == 4500

\* 0.7 seconds
min_request_interval == 7

max_retries == 3

\* 1 second
retry_delay == 10

backoff_factor == 2

\* timedelta(minutes=1), timedelta(hours=1)
Minute == 600

Hour == 36000

\* lines 89-96: now after the wait for the minimum interval
AfterInterval(request_times, now) ==
    IF request_times # <<>> /\ now - request_times[Len(request_times)] < min_request_interval
    THEN request_times[Len(request_times)] + min_request_interval
    ELSE now

\* lines 99-107: the times less than span ago
Cleaned(times, now, span) == SelectSeq(times, LAMBDA t : now - t < span)

\* min(times)
Oldest(times) == times[CHOOSE i \in 1..Len(times) : \A j \in 1..Len(times) : times[i] <= times[j]]

\* lines 110-129: now after the wait that a full window asks for
AfterLimit(times, limit, span, now) ==
    IF Len(times) >= limit /\ Oldest(times) + span - now > 0
    THEN Oldest(times) + span
    ELSE now

\* lines 132-133
RecordedAt(request_times, hourly_request_times, now) ==
    [request_times |-> Append(request_times, now),
     hourly_request_times |-> Append(hourly_request_times, now), now |-> now]

\* lines 110-133
LimitsChecked(request_times, hourly_request_times, now) ==
    RecordedAt(request_times, hourly_request_times,
        AfterLimit(hourly_request_times, requests_per_hour, Hour,
            AfterLimit(request_times, requests_per_minute, Minute, now)))

\* lines 99-133
CleanedAndChecked(self, now) ==
    LimitsChecked(Cleaned(self.request_times, now, Minute),
                  Cleaned(self.hourly_request_times, now, Hour), now)

\* the lists after the call and the time at which it returns
_rate_limit_check(self, now) == CleanedAndChecked(self, AfterInterval(self.request_times, now))

\* what the server does with one attempt
Ok == [kind |-> "response", status_code |-> 200, retry_after |-> 0]

NotFound == [kind |-> "response", status_code |-> 404, retry_after |-> 0]

ServerError == [kind |-> "response", status_code |-> 500, retry_after |-> 0]

\* 429 with the header Retry-After: 0, and without the header (60 seconds)
TooManyRequests == [kind |-> "response", status_code |-> 429, retry_after |-> 0]

TooManyRequestsDefault == [kind |-> "response", status_code |-> 429, retry_after |-> 600]

ConnectionError == [kind |-> "RequestException", status_code |-> 0, retry_after |-> 0]

\* retry_delay * (backoff_factor ** attempt)
RECURSIVE Power(_, _)
Power(base, n) == IF n = 0 THEN 1 ELSE base * Power(base, n - 1)

Backoff(attempt) == retry_delay * Power(backoff_factor, attempt)

\* how a call of _make_request ends: a response or an exception, the number
\* of attempts it made, the times at which it sent them, the time it ends
Ended(outcome, attempt, sent, now) ==
    [outcome |-> outcome, attempts |-> attempt + 1, sent |-> sent, now |-> now]

\* lines 141-184: the loop from one attempt on; answers[attempt + 1] is the
\* server's answer to it
RECURSIVE AttemptsFrom(_, _, _, _)
AttemptsFrom(attempt, answers, sent, now) ==
    IF attempt > max_retries THEN Ended("ZenodoAPIError", attempt - 1, sent, now)
    ELSE IF answers[attempt + 1].kind = "RequestException"
    THEN IF attempt < max_retries
         THEN AttemptsFrom(attempt + 1, answers, Append(sent, now), now + Backoff(attempt))
         ELSE Ended("ZenodoAPIError", attempt, Append(sent, now), now)
    ELSE IF answers[attempt + 1].status_code = 429
    THEN IF attempt < max_retries
         THEN AttemptsFrom(attempt + 1, answers, Append(sent, now), now + answers[attempt + 1].retry_after)
         ELSE Ended("RateLimitError", attempt, Append(sent, now), now)
    ELSE IF answers[attempt + 1].status_code >= 400
    THEN IF attempt < max_retries /\ answers[attempt + 1].status_code >= 500
         THEN AttemptsFrom(attempt + 1, answers, Append(sent, now), now + Backoff(attempt))
         ELSE Ended("ZenodoAPIError", attempt, Append(sent, now), now)
    ELSE Ended("response", attempt, Append(sent, now), now)

\* the call after _rate_limit_check
Requested(checked, answers) ==
    [self |-> [request_times |-> checked.request_times,
               hourly_request_times |-> checked.hourly_request_times],
     call |-> AttemptsFrom(0, answers, <<>>, checked.now)]

_make_request(self, now, answers) == Requested(_rate_limit_check(self, now), answers)

\* lines 238-245: requests.put(upload_url, ...) after get_deposition returned
Uploaded(got, put_answer) ==
    IF got.call.outcome # "response" THEN got
    ELSE [self |-> got.self,
          call |-> [outcome |-> IF put_answer.status_code = 200 THEN "response" ELSE "ZenodoAPIError",
                    attempts |-> got.call.attempts,
                    sent |-> Append(got.call.sent, got.call.now),
                    now |-> got.call.now]]

\* answers is what the server does with the attempts of get_deposition
upload_file(self, now, answers, put_answer) == Uploaded(_make_request(self, now, answers), put_answer)

(***************************************************************************)
(* Specification SpecApi: up to MaxCalls calls of one client, which has    *)
(* just been constructed or has been sending requests for a minute.        *)
(* frame is the client, clock the time, arg the number of calls so far,    *)
(* returned the times of all HTTP requests sent, errors the times of the   *)
(* ones among them that _rate_limit_check did not record, ret the end of   *)
(* the last call.                                                          *)
(***************************************************************************)
MaxCalls == 2

\* the server's answers to the attempts of one call
ServerScripts ==
    {<<Ok, Ok, Ok, Ok>>, <<NotFound, Ok, Ok, Ok>>, <<ServerError, Ok, Ok, Ok>>,
     <<ConnectionError, ConnectionError, Ok, Ok>>,
     <<TooManyRequests, TooManyRequests, TooManyRequests, Ok>>,
     <<TooManyRequestsDefault, Ok, Ok, Ok>>,
     <<ServerError, ServerError, ServerError, ServerError>>,
     <<TooManyRequests, TooManyRequests, TooManyRequests, TooManyRequests>>,
     <<ConnectionError, ConnectionError, ConnectionError, ConnectionError>>}

\* the times of n requests, one every gap, the last one at time last
Evenly(n, gap, last) == [i \in 1..n |-> last - (n - i) * gap]

\* requests of the last minute of a client that sent one request every
\* 0.7 seconds
BusyMinute == Evenly(86, min_request_interval, 1000)

\* __init__ sends one request (_test_connection); a busy client has sent
\* its requests one by one, each answered at once
ClientHistories == {<<0>>, BusyMinute}

\* time the caller lets pass between two calls
IdleTimes == {1, min_request_interval, Minute}

InitApi ==
    /\ pc = "called"
    /\ returned \in ClientHistories
    /\ frame = [request_times |-> returned, hourly_request_times |-> returned]
    /\ clock = returned[Len(returned)]
    /\ errors = <<>>
    /\ arg = 0
    /\ ret = Pending
    /\ root = <<>>
    /\ metadata = Unbound
    /\ now_year = 2025
    /\ warnings = <<>>
    /\ date_formats = <<>>
    /\ license_detected = 0
    /\ bbox_issues = <<>>
    /\ validation_results = <<>>

ApiFrame == <<root, metadata, warnings, date_formats, license_detected, now_year, bbox_issues, validation_results>>

\* the attempts after the first one of a call
Retries(sent) == SubSeq(sent, 2, Len(sent))

\* the state after a call
Called(done) ==
    /\ frame' = done.self
    /\ clock' = done.call.now
    /\ returned' = returned \o done.call.sent
    /\ errors' = errors \o Retries(done.call.sent)
    /\ ret' = [outcome |-> done.call.outcome, attempts |-> done.call.attempts]
    /\ arg' = arg + 1
    /\ pc' = "called"

\* create_deposition, get_deposition, update_deposition_metadata, ...: one
\* call of _make_request
MakeRequest ==
    /\ arg < MaxCalls
    /\ \E answers \in ServerScripts : Called(_make_request(frame, clock, answers))
    /\ UNCHANGED ApiFrame

UploadFile ==
    /\ arg < MaxCalls
    /\ \E answers \in ServerScripts, put_answer \in {Ok, ServerError} :
           Called(upload_file(frame, clock, answers, put_answer))
    /\ UNCHANGED ApiFrame

\* the caller does something else for a while
Idle ==
    /\ pc = "called"
    /\ arg < MaxCalls
    /\ \E d \in IdleTimes : clock' = clock + d
    /\ pc' = "ready"
    /\ UNCHANGED <<ApiFrame, frame, returned, errors, ret, arg>>

NextApi == MakeRequest \/ UploadFile \/ Idle

SpecApi == InitApi /\ [][NextApi]_vars

(***************************************************************************)
(* Specification SpecWorkers: transform_fgdc_file called by the threads of *)
(* one process, one record per thread.  Every call makes its own           *)
(* transformer, whose __init__ fetches the logger of the module with       *)
(* get_logger; the module global `logger` and the TransformationLogger     *)
(* objects are the state the threads share.  Variables: root the tree of   *)
(* each worker, frame the local state of each worker, ret the global       *)
(* `logger` (0 is None, else the address of an object), returned the       *)
(* TransformationLogger objects made so far, clock the object whose        *)
(* handlers logging.getLogger('fgdc_transform') holds, arg 1 when          *)
(* initialize_logger ran before the workers started.  A step is what one   *)
(* thread does between two points where the interpreter may switch.        *)
(***************************************************************************)
\* the number of worker threads
MaxWorkers == 2

\* the file a worker transforms
RecordPath(w) == <<Digits[w + 1]>> \o <<".","x","m","l">>

\* lines 140-154 of _build_zenodo_metadata
BaseMetadata(title, creators, publication_date, description) ==
    [title |-> title, upload_type |-> "dataset", publication_date |-> publication_date,
     creators |-> creators, description |-> description, access_right |-> "open",
     license |-> DefaultLicense, keywords |-> <<>>, notes |-> <<>>,
     related_identifiers |-> <<>>, contributors |-> <<>>, references |-> <<>>,
     communities |-> <<[identifier |-> "pices"]>>]

\* the record and the diagnostics of a call that returns a record
Finished(md, log) == [ret |-> md, log |-> log]

\* lines 1180-1195, after the notes of lines 721-722
AdditionalFields(md, tree) ==
    _extract_metadata_info(_extract_distribution_info(_extract_security_info(Put(md, "notes", _build_notes(tree)), tree), tree), tree)

\* line 706 and the steps after it
WithSpatial(s, tree, log) == Finished(AdditionalFields(s.md, tree), log \o s.log)

\* line 703
WithTemporal(t, tree, log) == WithSpatial(_extract_spatial_coverage(t.md, tree), tree, log \o t.log)

\* line 700
WithAccess(a, tree, year, log) ==
    WithTemporal(_extract_temporal_coverage(a.md, tree, year), tree, log \o a.log)

\* lines 140-159
WithRequired(title, creators, date, description, tree, year, log) ==
    WithAccess(_extract_access_constraints(BaseMetadata(title, creators, date, description), tree), tree, year, log)

\* lines 135-137
WithDescription(title, creators, date, d, tree, year, log) ==
    IF Falsy(d.ret) THEN Finished(None, log \o d.log)
    ELSE WithRequired(title, creators, date, d.ret, tree, year, log \o d.log)

\* lines 131-133
WithPublicationDate(title, creators, p, tree, year, log) ==
    IF Falsy(p.ret) THEN Finished(None, log \o p.log)
    ELSE WithDescription(title, creators, p.ret, _extract_description(tree), tree, year, log \o p.log)

\* lines 127-129
WithCreators(title, c, tree, year, log) ==
    IF Len(c.ret) = 0 THEN Finished(None, log \o c.log)
    ELSE WithPublicationDate(title, c.ret, _extract_publication_date(tree, year), tree, year, log \o c.log)

\* lines 123-125
WithTitle(t, tree, year) ==
    IF Falsy(t.ret) THEN Finished(None, t.log)
    ELSE WithCreators(t.ret, _extract_creators(tree), tree, year, t.log)

\* _build_zenodo_metadata(root, xml_path): what it returns and the calls of
\* log_warning and log_error it makes, in the order it makes them
_build_zenodo_metadata(tree, year) == WithTitle(_extract_title(tree), tree, year)

\* the diagnostics carry the path of the file under transformation
WithPath(log, path) == [i \in 1..Len(log) |-> [log[i] EXCEPT !.file = path]]

\* TransformationLogger.__init__: empty lists and counters, a new log file
TransformationLogger == [warnings |-> <<>>, errors |-> <<>>, issues_by_type |-> <<>>, lines |-> <<>>]

\* Counter.__getitem__: a missing key counts 0
CountOf(issues_by_type, issue_type) ==
    IF \E i \in 1..Len(issues_by_type) : issues_by_type[i].key = issue_type
    THEN (CHOOSE e \in {issues_by_type[i] : i \in 1..Len(issues_by_type)} : e.key = issue_type).count
    ELSE 0

\* Counter.__setitem__
CountSet(issues_by_type, issue_type, n) ==
    IF \E i \in 1..Len(issues_by_type) : issues_by_type[i].key = issue_type
    THEN [i \in 1..Len(issues_by_type) |->
            IF issues_by_type[i].key = issue_type THEN [key |-> issue_type, count |-> n]
            ELSE issues_by_type[i]]
    ELSE Append(issues_by_type, [key |-> issue_type, count |-> n])

\* a tree of the worker pool
WorkerTree(origin, pubdate, abstract) ==
    [title |-> <<"S","e","a"," ","I","c","e"," ","E","x","t","e","n","t">>, origin |-> <<origin>>, pubdate |-> pubdate, metd |-> NoElem,
     abstract |-> abstract, purpose |-> <<"C","l","i","m","a","t","e"," ","m","o","n","i","t","o","r","i","n","g">>, supplinf |-> NoElem,
     accconst |-> NoElem, useconst |-> NoElem, secclass |-> NoElem, sechandl |-> NoElem,
     fees |-> NoElem] @@ NoCoverage

\* a record without diagnostics, one with three warnings, and one with a
\* warning followed by the error that ends its transformation
WorkerTrees ==
    {WorkerTree(<<"N","O","A","A">>, <<"2","0","0","4">>, <<"M","o","n","t","h","l","y"," ","s","e","a"," ","i","c","e"," ","e","x","t","e","n","t",".">>),
     WorkerTree(<<"C","h","e","r">>, <<"1","9","5","0","-","1","9","8","0">>, NoElem),
     WorkerTree(<<"C","h","e","r">>, NoElem, <<"M","o","n","t","h","l","y"," ","s","e","a"," ","i","c","e"," ","e","x","t","e","n","t",".">>)}

\* _build_zenodo_metadata on the trees of the pool
BuiltRecords == [tree \in WorkerTrees |-> [year \in NowYears |-> _build_zenodo_metadata(tree, year)]]

\* what worker w's call of _build_zenodo_metadata returns and logs
Built(w) == BuiltRecords[root[w]][now_year]

\* the calls of log_warning and log_error of worker w, in order
DiagnosticsOf(w) == WithPath(Built(w).log, RecordPath(w))

\* a thread that has not started its task
Waiting == [pc |-> "get_logger", logger |-> 0, logged |-> 0, count |-> 0, result |-> Pending]

InitWorkers ==
    /\ pc = "workers"
    /\ root \in [1..MaxWorkers -> WorkerTrees]
    /\ now_year \in NowYears
    /\ arg \in {0, 1}
    /\ returned = (IF arg = 1 THEN <<TransformationLogger>> ELSE <<>>)
    /\ ret = arg
    /\ clock = arg
    /\ frame = [w \in 1..MaxWorkers |-> Waiting]
    /\ metadata = Unbound
    /\ warnings = <<>>
    /\ errors = <<>>
    /\ date_formats = <<>>
    /\ license_detected = 0
    /\ bbox_issues = <<>>
    /\ validation_results = <<>>

WorkersFrame == <<pc, root, metadata, warnings, errors, date_formats, license_detected, arg, now_year, bbox_issues, validation_results>>

\* the diagnostic a worker is about to log
Current(w) == DiagnosticsOf(w)[frame[w].logged + 1]

\* the worker moves on
Moved(w, to) == frame' = [frame EXCEPT ![w].pc = to]

\* logger.py line 396: `if logger is None`
TestLogger(w) ==
    /\ frame[w].pc = "get_logger"
    /\ Moved(w, IF ret = 0 THEN "create" ELSE "return_logger")
    /\ UNCHANGED <<WorkersFrame, ret, returned, clock>>

\* logger.py line 397: `logger = TransformationLogger()`; _setup_logger
\* (lines 55-82) replaces the handlers of the logger named fgdc_transform
CreateLogger(w) ==
    /\ frame[w].pc = "create"
    /\ returned' = Append(returned, TransformationLogger)
    /\ ret' = Len(returned) + 1
    /\ clock' = Len(returned) + 1
    /\ Moved(w, "return_logger")
    /\ UNCHANGED WorkersFrame

\* logger.py line 398 and fgdc_to_zenodo.py line 25: `self.logger = get_logger()`
ReturnLogger(w) ==
    /\ frame[w].pc = "return_logger"
    /\ frame' = [frame EXCEPT ![w].pc = "build", ![w].logger = ret]
    /\ UNCHANGED <<WorkersFrame, ret, returned, clock>>

\* the list of the logger object that takes a diagnostic
ListOf(d) == IF d.severity = "warning" THEN "warnings" ELSE "errors"

\* logger.py lines 100 and 125: `self.warnings.append(warning)`, `self.errors.append(error)`
AppendDiagnostic(w) ==
    /\ frame[w].pc = "build"
    /\ frame[w].logged < Len(DiagnosticsOf(w))
    /\ returned' = [returned EXCEPT ![frame[w].logger][ListOf(Current(w))] = Append(@, Current(w))]
    /\ Moved(w, "load_count")
    /\ UNCHANGED <<WorkersFrame, ret, clock>>

\* logger.py lines 101 and 126, the read of `issues_by_type[issue_type] += 1`
LoadCount(w) ==
    /\ frame[w].pc = "load_count"
    /\ frame' = [frame EXCEPT ![w].pc = "store_count",
                              ![w].count = CountOf(returned[frame[w].logger].issues_by_type, Current(w).issue_type)]
    /\ UNCHANGED <<WorkersFrame, ret, returned, clock>>

\* logger.py lines 101 and 126, the write of `issues_by_type[issue_type] += 1`
StoreCount(w) ==
    /\ frame[w].pc = "store_count"
    /\ returned' = [returned EXCEPT ![frame[w].logger].issues_by_type =
                        CountSet(@, Current(w).issue_type, frame[w].count + 1)]
    /\ Moved(w, "emit")
    /\ UNCHANGED <<WorkersFrame, ret, clock>>

\* logger.py lines 103-107 and 128-132: the line goes to the handlers the
\* logger named fgdc_transform holds at this moment
EmitLine(w) ==
    /\ frame[w].pc = "emit"
    /\ returned' = [returned EXCEPT ![clock].lines = Append(@, Current(w))]
    /\ frame' = [frame EXCEPT ![w].pc = "build", ![w].logged = @ + 1]
    /\ UNCHANGED <<WorkersFrame, ret, clock>>

\* fgdc_to_zenodo.py lines 60 and 1589: the call returns its record
ReturnRecord(w) ==
    /\ frame[w].pc = "build"
    /\ frame[w].logged = Len(DiagnosticsOf(w))
    /\ frame' = [frame EXCEPT ![w].pc = "done", ![w].result = Built(w).ret]
    /\ UNCHANGED <<WorkersFrame, ret, returned, clock>>

NextWorkers ==
    \E w \in 1..MaxWorkers :
        \/ TestLogger(w)
        \/ CreateLogger(w)
        \/ ReturnLogger(w)
        \/ AppendDiagnostic(w)
        \/ LoadCount(w)
        \/ StoreCount(w)
        \/ EmitLine(w)
        \/ ReturnRecord(w)

SpecWorkers == InitWorkers /\ [][NextWorkers]_vars
(***************************************************************************)
(* Specification SpecDate: _normalize_date applied to one raw token        *)
(***************************************************************************)
VagueTokens == {<<>>, <<"v","a","r","i","e","s">>, <<"U","n","k","n","o","w","n">>, <<"n","o","t"," ","s","p","e","c","i","f","i","e","d">>, <<"p","r","e","s","e","n","t">>, <<"P","R","E","S","E","N","T">>}

StatusTokens == {<<"p","l","a","n","n","e","d">>, <<"U","n","p","u","b","l","i","s","h","e","d">>, <<"u","n","p","u","b","l","i","s","h","e","d"," ","m","a","t","e","r","i","a","l">>}

RangeYears == {<<"1","9","5","0">>, <<"1","9","8","0">>, <<"1","9","9","7">>, <<"2","0","0","4">>, <<"0","0","5","0">>}

YearRangeTokens == {y1 \o <<"-">> \o y2 : y1 \in RangeYears, y2 \in {<<"1","9","8","0">>, <<"2","0","0","4">>}}

FullRangeTokens ==
    {d1 \o <<"-">> \o <<"2","0","0","2","1","2","3","1">> : d1 \in {<<"1","9","9","7","0","1","0","1">>, <<"2","0","0","2","1","2","3","1">>, <<"1","9","9","7","1","3","0","1">>, <<"2","0","0","4","0","2","3","0">>}}

YearListTokens == {<<"1","9","9","1",","," ","1","9","9","2">>, <<"1","9","8","8",","," ","1","9","8","9",","," ","1","9","9","1">>, <<"1","9","9","1",",","1","9","9","2">>, <<"0","0","5","0",","," ","1","9","9","2">>, <<"M","a","y"," ","5",","," ","2","0","0","4">>}

PresentTokens == {<<"1","9","9","2","-","P","r","e","s","e","n","t">>, <<"2","0","0","4","-","P","r","e","s","e","n","t">>}

MonthRangeTokens == {<<"1","9","6","2","0","5","-","1","9","6","2","0","7">>, <<"1","9","9","7","1","3","-","1","9","9","8","0","1">>}

SpaceYearTokens == {<<"1","9","8","3"," ","1","9","9","4">>, <<"1","9","8","3"," "," ","1","9","9","4">>}

ThruTokens == {<<"7","2","-","8","8"," "," ","t","h","r","u"," "," ","8","7","-","9","8">>, <<"0","5"," ","t","h","r","u"," ","1","0">>, <<"1","9","9","7"," ","t","h","r","u"," ","2","0","0","2">>}

DashToTokens == {<<"1","9","8","8"," ","-"," ","P","r","e","s","e","n","t">>, <<"1","9","9","0"," ","t","o"," ","1","9","9","5">>}

TwoDigitTokens == {<<"7","2","-","8","8">>, <<"0","5","-","1","0">>, <<"4","9","-","5","0">>, <<"5","0","-","4","9">>, <<"0","0","-","9","9">>}

PlainTokens == {<<"2","0","0","4">>, <<"2","0","0","4","0","3">>, <<"2","0","0","4","0","3","0","1">>, <<"1","9","9","7">>, <<"1","9","9","7","0","1">>, <<"1","9","9","7","0","1","0","1">>}

\* 4-, 6- and 8-character tokens that are not all digits or encode no calendar date
MalformedPlainTokens == {<<"1","9","9","7","1","3">>, <<"2","0","0","4","1","3","4","0">>, <<"2","0","0","4","a","b">>, <<"2","0","0","4","0","2","3","0">>}

\* tokens with no date in them
NoDateTokens ==
    {<<"a","b","c","d">>, <<"a","b","c">>, <<"S","p","r","i","n","g">>, <<"n","o"," ","d","a","t","e">>, <<"t","h","r","u">>, <<"a"," ","t","h","r","u"," ","b">>, <<"J","a","n"," ","t","h","r","u"," ","M","a","r">>,
     <<"J","a","n"," ","t","o"," ","F","e","b">>, <<"a"," ","-"," ","b">>, <<"n","/","a">>, <<"a",",","b">>}

CanonicalYears == {<<"1","9","5","0">>, <<"1","9","9","7">>, <<"2","0","0","0">>, <<"2","0","0","4">>}

CanonicalMonths == {<<"0","1">>, <<"0","2">>, <<"0","3">>, <<"1","2">>}

CanonicalDays == {<<"0","1">>, <<"2","8">>, <<"2","9">>, <<"3","1">>}

IsoTokens ==
    {y \o <<"-">> \o m \o <<"-">> \o d : y \in CanonicalYears, m \in CanonicalMonths, d \in CanonicalDays}

\* the valid calendar dates among them
CanonicalTokens ==
    {t \in IsoTokens : IntOf(SubSeq(t, 9, 10)) <= DaysInMonth(IntOf(SubSeq(t, 1, 4)), IntOf(SubSeq(t, 6, 7)))}

\* tokens that match a range pattern and the year-list or the YYYY-Present rule
OverlapTokens ==
    {<<"1","9","9","7"," ","t","h","r","u"," ","2","0","0","2",","," ","2","0","0","4">>, <<"1","9","9","1",","," ","1","9","9","2"," ","-"," ","1","9","9","5">>, <<"1","9","8","5"," ","t","o"," ","1","9","9","0","-","P","r","e","s","e","n","t">>, <<"7","2"," ","t","h","r","u"," ","8","8",","," ","1","9","9","0">>}

DateTokens ==
    Padded(VagueTokens \cup StatusTokens \cup YearRangeTokens \cup FullRangeTokens
           \cup YearListTokens \cup PresentTokens \cup MonthRangeTokens \cup SpaceYearTokens
           \cup ThruTokens \cup DashToTokens \cup TwoDigitTokens \cup PlainTokens
           \cup MalformedPlainTokens \cup NoDateTokens \cup IsoTokens \cup OverlapTokens)

InitDate ==
    /\ pc = "normalize_date"
    /\ arg \in DateTokens
    /\ now_year \in NowYears
    /\ ret = Pending
    /\ root = <<>>
    /\ metadata = Unbound
    /\ warnings = <<>>
    /\ errors = <<>>
    /\ date_formats = <<>>
    /\ license_detected = 0
    /\ bbox_issues = <<>>
    /\ validation_results = <<>>
    /\ clock = 0
    /\ returned = <<>>
    /\ frame = <<>>

\* one call _normalize_date(arg, file_path)
CallNormalizeDate ==
    /\ pc = "normalize_date"
    /\ LET r == _normalize_date(arg, now_year)
       IN  /\ ret' = r.ret
           /\ warnings' = warnings \o WarningsOf(r.log)
           /\ errors' = errors \o ErrorsOf(r.log)
    /\ date_formats' = Append(date_formats, Strip(arg))
    /\ pc' = "date_done"
    /\ UNCHANGED <<root, metadata, license_detected, frame, arg, now_year, bbox_issues, validation_results, clock, returned>>

NextDate == CallNormalizeDate

SpecDate == InitDate /\ [][NextDate]_vars

\* the token as _normalize_date sees it after strip()
Token == Strip(arg)

\* every diagnostic the call emitted
DateLog == warnings \o errors

(***************************************************************************)
(* Properties of _normalize_date (SpecDate)                                *)
(***************************************************************************)
\* the exact canonical form: four digits, '-', month 01-12, '-', day 01-31
IsCanonicalDate(s) ==
    /\ Len(s) = 10
    /\ \A i \in {1, 2, 3, 4, 6, 7, 9, 10} : IsDigit(s[i])
    /\ s[5] = "-" /\ s[8] = "-"
    /\ IntOf(<<s[6], s[7]>>) \in 1..12
    /\ IntOf(<<s[9], s[10]>>) \in 1..31

\* C3: for every input token _normalize_date returns None or a string of the
\* exact form YYYY-MM-DD (four digits, month 01-12, day 01-31), also for
\* 4-, 6- and 8-character tokens that are not all digits or encode an
\* impossible month or day.
C3_CanonicalOrNone ==
    pc = "date_done" => (ret = None \/ IsCanonicalDate(ret))

\* value reads as January 1 of the year numbered y
IsJanuaryFirstOf(value, y) ==
    /\ value # None
    /\ Len(value) > 6
    /\ SubSeq(value, Len(value) - 5, Len(value)) = <<"-","0","1","-","0","1">>
    /\ AllDigits(SubSeq(value, 1, Len(value) - 6))
    /\ IntOf(SubSeq(value, 1, Len(value) - 6)) = y

C5_CanonicalIdempotent ==
    (pc = "date_done" /\ Token \in CanonicalTokens) => (ret = Token /\ DateLog = <<>>)

C5_Witness ==
    pc = "date_done" /\ arg = <<"2","0","0","4","-","0","3","-","0","1">> /\ ret = <<"2","0","0","4","-","0","3","-","0","1">>

\* tokens whose normalization discards information
LossyTokens ==
    VagueTokens \cup StatusTokens \cup YearRangeTokens \cup FullRangeTokens
    \cup YearListTokens \cup PresentTokens \cup MonthRangeTokens \cup SpaceYearTokens
    \cup ThruTokens \cup DashToTokens \cup TwoDigitTokens

\* the diagnostic names the original token
NamesToken(d) ==
    d.value_found = (IF Token = <<>> THEN <<"e","m","p","t","y">> ELSE Token)

\* the diagnostic names the substitute: the returned date, or the returned
\* date without its defaulted "-01" / "-01-01" tail
NamesSubstitute(d, value) ==
    \E k \in 1..Len(value) :
        /\ SubSeq(value, k + 1, Len(value)) \in {<<>>, <<"-","0","1">>, <<"-","0","1","-","0","1">>}
        /\ Contains(d.suggestion, SubSeq(value, 1, k))

\* C6: every path that discards information (range collapsed, vague or
\* status token, two-digit year, multi-year list) emits a diagnostic naming
\* the original token and the substitute chosen; a token that cannot be
\* normalized at all is reported as a failure (None plus a diagnostic) and
\* never silently replaced by a date.
C6_DiagnosedOrFailed ==
    pc = "date_done" =>
        /\ Token \in LossyTokens =>
               \E i \in 1..Len(DateLog) :
                   /\ NamesToken(DateLog[i])
                   /\ ret # None => NamesSubstitute(DateLog[i], ret)
        /\ Token \in NoDateTokens =>
               /\ ret = None
               /\ \E i \in 1..Len(DateLog) : NamesToken(DateLog[i])

(***************************************************************************)
(* Properties of _build_zenodo_metadata (specification Spec)               *)
(***************************************************************************)
RequiredFields == {"title", "creators", "publication_date", "description"}

\* _build_zenodo_metadata has returned the record it built
RecordReturned == pc = "done" /\ DOMAIN metadata # {}

\* _build_zenodo_metadata has returned None
NoneReturned == pc = "done" /\ DOMAIN metadata = {}

\* a text that is there and is not empty
NonEmptyText(value) == value # None /\ Len(value) > 0

\* C1: a returned record has a non-empty title, creators, publication_date
\* and description; when one of the four is not resolved the result is None;
\* and a record exists (so that an optional step can work on it) only once
\* all four are resolved.
C1_RequiredOrNothing ==
    /\ RecordReturned =>
           /\ NonEmptyText(ret.title)
           /\ Len(ret.creators) > 0
           /\ NonEmptyText(ret.publication_date)
           /\ NonEmptyText(ret.description)
    /\ (pc = "done" /\ DOMAIN frame # RequiredFields) => (DOMAIN metadata = {} /\ ret = None)
    /\ DOMAIN metadata # {} => DOMAIN frame = RequiredFields
    /\ pc \in OptionalSteps => DOMAIN metadata # {}

\* a record is returned whose date and description both come from a fallback
C1_Witness ==
    /\ RecordReturned
    /\ root.pubdate = NoElem
    /\ root.abstract = NoElem
    /\ Len(ret.creators) = MaxOrigins
    /\ ret.publication_date = <<"2","0","0","4","-","0","3","-","0","1">>

\* an element without text, or with blanks only
Blank(elem) == elem = NoElem \/ \A i \in 1..Len(elem) : elem[i] = " "

NoUsableTitle == Blank(root.title)

NoUsableCreators == \A i \in 1..Len(root.origin) : Blank(root.origin[i])

NoUsableDate ==
    /\ Blank(root.pubdate) \/ root.pubdate \in UnusableDateTexts
    /\ Blank(root.metd) \/ root.metd \in UnusableDateTexts

\* the description falls back on purpose, supplinf and the title
NoUsableDescription ==
    Blank(root.abstract) /\ Blank(root.purpose) /\ Blank(root.supplinf) /\ Blank(root.title)

\* construction failed with an error diagnostic on the given field path
FailedNaming(path) ==
    /\ NoneReturned
    /\ ret = None
    /\ \E i \in 1..Len(errors) : errors[i].field = path

\* C2: when no fallback source of a required field holds a usable value the
\* construction fails, and an error diagnostic names the path of that field;
\* the fields are tried in the order title, creators, publication_date,
\* description and the first one without a usable value is the one named.
\* (The title is the last fallback of the description, so the description
\* is never the first one.)
C2_FailsNamingField ==
    pc = "done" =>
        /\ (NoUsableTitle \/ NoUsableCreators \/ NoUsableDate \/ NoUsableDescription)
               => (NoneReturned /\ ret = None)
        /\ NoUsableTitle => FailedNaming("idinfo.citation.citeinfo.title")
        /\ (~NoUsableTitle /\ NoUsableCreators)
               => FailedNaming("idinfo.citation.citeinfo.origin")
        /\ (~NoUsableTitle /\ ~NoUsableCreators /\ NoUsableDate)
               => FailedNaming("idinfo.citation.citeinfo.pubdate")

\* the access constraint asks for open access
OpenPhrased == root.accconst \in OpenPhrases

RestrictedPhrased == root.accconst \in RestrictedPhrases

OtherPhrased == root.accconst \in OtherPhrases

Classified == root.secclass \in ClassifiedTexts

CcZero == <<"c","c","-","z","e","r","o">>

\* C8 as stated: none / open / public gives open access, with cc-zero when no
\* license pattern matches; restricted / by request / registration gives
\* restricted access; any other text gives open access; and no later step
\* changes the open access of the first case.
C8_AccessPrecedence ==
    RecordReturned =>
        /\ OpenPhrased => ret.access_right = "open"
        /\ (OpenPhrased /\ root.useconst \in NoLicenseTexts) => ret.license = CcZero
        /\ RestrictedPhrased => ret.access_right = "restricted"
        /\ OtherPhrased => ret.access_right = "open"

\* C8 amended: the precedence of C8 holds for the trees whose security
\* classification is not restricted, confidential or secret; with such a
\* classification the access is restricted whatever the access constraint says.
C8_AccessPrecedenceUnlessClassified ==
    RecordReturned =>
        /\ (OpenPhrased /\ ~Classified) => ret.access_right = "open"
        /\ (OpenPhrased /\ root.useconst \in NoLicenseTexts) => ret.license = CcZero
        /\ RestrictedPhrased => ret.access_right = "restricted"
        /\ (OtherPhrased /\ ~Classified) => ret.access_right = "open"
        /\ Classified => ret.access_right = "restricted"

\* an access constraint "None" on a tree classified "Restricted"
C8_Witness ==
    /\ RecordReturned
    /\ root.accconst = <<"N","o","n","e">>
    /\ root.secclass = <<"R","e","s","t","r","i","c","t","e","d">>
    /\ root.useconst = <<"C","i","t","e"," ","t","h","e"," ","a","u","t","h","o","r","s">>
    /\ ret.access_right = "restricted"
    /\ ret.license = CcZero

\* C9: the access_right of a returned record is open or restricted, and a
\* restricted record carries a non-empty access_conditions string.
C9_RestrictedHasConditions ==
    RecordReturned =>
        /\ ret.access_right \in {"open", "restricted"}
        /\ ret.access_right = "restricted" =>
               /\ "access_conditions" \in DOMAIN ret
               /\ NonEmptyText(ret.access_conditions)

\* the classification restricts the record, the handling and the fees extend
\* the conditions
C9_Witness ==
    /\ RecordReturned
    /\ root.accconst = NoElem
    /\ root.secclass = <<"S","E","C","R","E","T">>
    /\ root.sechandl # NoElem
    /\ root.fees # NoElem
    /\ ret.access_conditions
         = <<"S","e","c","u","r","i","t","y"," ","c","l","a","s","s","i","f","i","c","a","t","i","o","n",":"," ","S","E","C","R","E","T",";"," ","H","a","n","d","l","i","n","g",":"," ","N","e","e","d"," ","t","o"," ","k","n","o","w"," ","F","e","e","s",":"," ","N","o","n","e">>

\* the ids of the registry
RegistryIds ==
    {<<"c","c","-","z","e","r","o">>, <<"c","c","-","b","y","-","4",".","0">>, <<"c","c","-","b","y","-","s","a","-","4",".","0">>, <<"m","i","t">>, <<"a","p","a","c","h","e","-","2",".","0">>, <<"g","p","l","-","3",".","0">>, <<"o","p","e","n">>}

\* C10: the license of a returned record is an id of the registry, and it is
\* cc-zero when no pattern matches the use constraint and the access is open.
C10_LicenseInRegistry ==
    RecordReturned =>
        /\ ret.license \in RegistryIds
        /\ (root.useconst \in NoLicenseTexts /\ ret.access_right = "open") => ret.license = CcZero

\* the use constraint "None" on an open record
C10_Witness ==
    /\ RecordReturned
    /\ root.useconst = <<"N","o","n","e">>
    /\ ret.access_right = "open"
    /\ ret.license = CcZero
    /\ \E i \in 1..Len(warnings) : warnings[i].issue_type = "invalid_license_detected"

(***************************************************************************)
(* Properties of _extract_title (specification SpecTitle)                  *)
(***************************************************************************)
\* the title of the tree, trimmed
Trimmed == Strip(root.title)

\* C7: a title of more than 250 characters comes back as its first 247
\* characters and "...", 250 characters in all, with a title_truncated warning
\* that states the original length; a title of at most 250 characters comes
\* back as it is, trimmed.
C7_Truncation ==
    (pc = "title_done" /\ ~Blank(root.title)) =>
        IF Len(Trimmed) > 250
        THEN /\ ret = SubSeq(Trimmed, 1, 247) \o <<".",".",".">>
             /\ Len(ret) = 250
             /\ \E i \in 1..Len(warnings) :
                    /\ warnings[i].issue_type = "title_truncated"
                    /\ Contains(warnings[i].value_found, StrOf(Len(Trimmed)))
        ELSE /\ ret = Trimmed
             /\ warnings = <<>>

\* a title one character over the limit, with blanks around it
C7_Witness ==
    /\ pc = "title_done"
    /\ Len(root.title) > Len(Trimmed)
    /\ Len(Trimmed) = 251
    /\ Len(ret) = 250
    /\ Len(warnings) = 1

(***************************************************************************)
(* Properties of _extract_spatial_coverage (specification SpecBbox)        *)
(***************************************************************************)
\* the four bounds are there and are numbers
NumericBox ==
    /\ HasText(root.westbc) /\ ParseFloat(root.westbc).ok
    /\ HasText(root.eastbc) /\ ParseFloat(root.eastbc).ok
    /\ HasText(root.northbc) /\ ParseFloat(root.northbc).ok
    /\ HasText(root.southbc) /\ ParseFloat(root.southbc).ok

SourceWest == ParseFloat(root.westbc).value

SourceEast == ParseFloat(root.eastbc).value

\* a longitude above 180 shifted down by 360
Shifted(x) == IF x > 180 THEN x - 360 ELSE x

\* the bounds as the notes state them
ReportedBounds(west, east) ==
    <<"S","p","a","t","i","a","l"," ","c","o","v","e","r","a","g","e",":"," ","W">> \o FloatText(west) \o <<","," ","E">> \o FloatText(east)
    \o <<","," ","N">> \o FloatText(ParseFloat(root.northbc).value)
    \o <<","," ","S">> \o FloatText(ParseFloat(root.southbc).value)

CrossingNote == <<" ","(","c","r","o","s","s","e","s"," ","d","a","t","e","l","i","n","e",")">>

\* the wrap-then-classify rule for a box with west > east
C11_WrapThenClassify ==
    (pc = "bbox_done" /\ NumericBox /\ SourceWest > SourceEast) =>
        IF Shifted(SourceWest) > Shifted(SourceEast)
        THEN /\ EndsWith(metadata.notes,
                         ReportedBounds(Shifted(SourceWest), Shifted(SourceEast)) \o CrossingNote)
             /\ Len(bbox_issues) = 1
        ELSE /\ EndsWith(metadata.notes,
                         ReportedBounds(Shifted(SourceWest), Shifted(SourceEast)))
             /\ bbox_issues = <<>>
    /\ validation_results = <<>>
    /\ clock = 0
    /\ returned = <<>>

\* the notes report the shifted bounds, with the annotation exactly when the
\* reported west is greater than the reported east
C11_AnnotatedIffInverted ==
    (pc = "bbox_done" /\ NumericBox) =>
        /\ Contains(metadata.notes, ReportedBounds(Shifted(SourceWest), Shifted(SourceEast)))
        /\ EndsWith(metadata.notes, CrossingNote)
               <=> (Shifted(SourceWest) > Shifted(SourceEast))

\* C11: for numeric bounds with west > east a longitude above 180 is shifted
\* down by 360 and the box is a dateline crossing only if west > east still
\* holds (west 190, east 170 is reported as the normal box W-170, E170; west
\* 170, east -170 as one crossing box); and a box is annotated as crossing if
\* and only if its reported west is greater than its reported east.
C11_BboxClassification == C11_WrapThenClassify /\ C11_AnnotatedIffInverted

(***************************************************************************)
(* Properties of the notes of _build_zenodo_metadata (specification Spec)  *)
(***************************************************************************)
NumericLongitudes == {<<"1","7","0">>, <<"-","1","7","0">>, <<"1","9","0">>}

\* _extract_spatial_coverage wrote a line for the box of the tree
SpatialLineWritten ==
    root.westbc \in NumericLongitudes /\ root.eastbc \in NumericLongitudes

\* the box of the tree is a dateline crossing
CrossingBox == root.westbc = <<"1","7","0">> /\ root.eastbc = <<"-","1","7","0">>

\* _extract_temporal_coverage wrote its block for the time period of the tree
TemporalBlockWritten ==
    root.current # NoElem \/ root.begdate = <<"1","9","9","7">> \/ root.sngdate = <<"2","0","0","4","0","3","0","1">>

\* C12: the spatial-coverage line, with its "crosses dateline" annotation,
\* and the temporal-information block are in the notes of the returned
\* record.
C12_NotesKeepCoverage ==
    RecordReturned =>
        /\ SpatialLineWritten => Contains(ret.notes, <<"S","p","a","t","i","a","l"," ","c","o","v","e","r","a","g","e",":"," ","W">>)
        /\ CrossingBox => Contains(ret.notes, <<"(","c","r","o","s","s","e","s"," ","d","a","t","e","l","i","n","e",")">>)
        /\ TemporalBlockWritten => Contains(ret.notes, <<"T","e","m","p","o","r","a","l"," ","I","n","f","o","r","m","a","t","i","o","n",":">>)

(***************************************************************************)
(* Properties of the canonical record DTO (specification SpecDto)          *)
(***************************************************************************)
\* the caller's metadata has a publisher that is not the canonical one
SourcePublisherDiffers ==
    /\ "publisher" \in DOMAIN root
    /\ root.publisher # None /\ root.publisher # <<>> /\ root.publisher # PICES_PUBLISHER

\* C13: after build_canonical_dto, from_json, copy or a with_* operation
\* zenodo_metadata["publisher"] is PICES_PUBLISHER, and a non-empty source
\* publisher that differs from it is kept under imprint_publisher.
C13_PublisherCanonical ==
    pc = "dto" =>
        /\ "publisher" \in DOMAIN ret.zenodo_metadata
        /\ ret.zenodo_metadata.publisher = PICES_PUBLISHER
        /\ SourcePublisherDiffers =>
               /\ "imprint_publisher" \in DOMAIN ret.zenodo_metadata
               /\ ret.zenodo_metadata.imprint_publisher = root.publisher

\* a legacy publisher over an old imprint, after a clone with an audit event
\* and a reload
C13_Witness ==
    /\ pc = "dto" /\ arg >= 3
    /\ SourcePublisherDiffers /\ "imprint_publisher" \in DOMAIN root
    /\ "bibliographic_linkage" \in DOMAIN ret.audit_trail
    /\ ret.zenodo_metadata.imprint_publisher = LegacyPublisher

(***************************************************************************)
(* Properties of the validator (specification SpecValidate)                *)
(***************************************************************************)
\* the file holds a record: json.load gives a mapping with a mapping under "metadata"
HoldsRecord ==
    /\ root.parsed /\ HasMetadata(root.data)
    /\ root.data.value[<<"m","e","t","a","d","a","t","a">>].type = "dict"

\* the record of the file
LoadedRecord == root.data.value[<<"m","e","t","a","d","a","t","a">>]

Validated1 == pc = "validator" /\ Len(returned) >= 1

Listed1(result, text) == \E i \in 1..Len(result.issues) : result.issues[i] = text

\* two results agree in every field but the timestamp
SameButTimestamp(r1, r2) ==
    /\ r1.file = r2.file /\ r1.file_path = r2.file_path
    /\ r1.is_valid = r2.is_valid /\ r1.message = r2.message
    /\ r1.issues = r2.issues /\ r1.warnings = r2.warnings
    /\ r1.field_coverage = r2.field_coverage
    /\ r1.character_analysis = r2.character_analysis

\* whatever the clock and the validator, the results of two calls on one
\* file agree in every field other than timestamp
C14_SameButTimestamp ==
    \A i, j \in 1..Len(returned) : SameButTimestamp(returned[i], returned[j])

\* C14: validating the same Candidate Record twice, on the same or on a
\* fresh validator, yields two Validation Results that are identical in
\* every field.
C14_Deterministic ==
    \A i, j \in 1..Len(returned) : returned[i] = returned[j]

\* C15: validate_file and its _validate_* and _analyze_* helpers leave the
\* metadata of the record unchanged: no key is added, removed or rewritten
\* and no list or compound entry inside it is modified.
C15_MetadataUnchanged ==
    (Validated1 /\ HoldsRecord) => metadata = LoadedRecord

\* a record with blanks around its title and with compound entries has
\* been validated twice
C15_Witness ==
    /\ pc = "validator" /\ Len(returned) = 2 /\ HoldsRecord
    /\ <<"t","i","t","l","e">> \in DOMAIN metadata.value
    /\ metadata.value[<<"t","i","t","l","e">>].type = "str"
    /\ metadata.value[<<"t","i","t","l","e">>].value = <<" ","S","e","a"," ","I","c","e"," ","E","x","t","e","n","t"," ">>
    /\ <<"c","r","e","a","t","o","r","s">> \in DOMAIN metadata.value
    /\ ~ret.is_valid

\* a string field of the record is longer than its limit in the length table
StringOverLimit(record, field) ==
    /\ field \in DOMAIN record.value /\ record.value[field].type = "str"
    /\ HasLimit(field_limits, field)
    /\ Len(record.value[field].value) > LimitOr(field_limits, field, 0)

\* an array field of the record has more entries than its limit in the
\* cardinality table
ArrayOverLimit(record, field) ==
    /\ field \in DOMAIN record.value /\ record.value[field].type = "list"
    /\ HasLimit(array_limits, field)
    /\ Len(record.value[field].value) > LimitOr(array_limits, field, 0)

\* the result is invalid and lists an issue on the limit of the field
LimitReported(result, field) ==
    /\ ~result.is_valid
    /\ \E i \in 1..Len(result.issues) :
           Contains(result.issues[i], <<"F","i","e","l","d"," ","'">> \o field \o <<"'"," ","e","x","c","e","e","d","s">>)

\* every string field over its limit is reported
C16_StringLimits ==
    (Validated1 /\ HoldsRecord) =>
        \A f \in 1..Len(all_zenodo_fields) :
            StringOverLimit(LoadedRecord, all_zenodo_fields[f]) => LimitReported(ret, all_zenodo_fields[f])

\* every array field over its limit is reported
C16_ArrayLimits ==
    (Validated1 /\ HoldsRecord) =>
        \A f \in 1..Len(all_zenodo_fields) :
            ArrayOverLimit(LoadedRecord, all_zenodo_fields[f]) => LimitReported(ret, all_zenodo_fields[f])

\* C16: a record is reported invalid, with a blocking issue listed,
\* whenever a string field exceeds its limit in the length table and
\* whenever an array field has more entries than its limit in the
\* cardinality table.
C16_LimitsEnforced == C16_StringLimits /\ C16_ArrayLimits

MissingOrEmpty(record, field) ==
    field \notin DOMAIN record.value \/ ~Truthy(record.value[field])

HasText1(record, field, texts) ==
    field \in DOMAIN record.value /\ IsOneOf(record.value[field], texts)

\* C17: a record with access_right open or embargoed and a missing or empty
\* license, and a record with access_right restricted and a missing or
\* empty access_conditions, each get an issue that makes the record
\* invalid; is_valid is true exactly when the list of issues is empty.
C17_CrossFieldRules ==
    (Validated1 /\ HoldsRecord) =>
        /\ (HasText1(LoadedRecord, <<"a","c","c","e","s","s","_","r","i","g","h","t">>, {<<"o","p","e","n">>, <<"e","m","b","a","r","g","o","e","d">>})
            /\ MissingOrEmpty(LoadedRecord, <<"l","i","c","e","n","s","e">>))
               => (~ret.is_valid /\ Listed1(ret, <<"L","i","c","e","n","s","e"," ","r","e","q","u","i","r","e","d"," ","f","o","r"," ","o","p","e","n","/","e","m","b","a","r","g","o","e","d"," ","a","c","c","e","s","s">>))
        /\ (HasText1(LoadedRecord, <<"a","c","c","e","s","s","_","r","i","g","h","t">>, {<<"r","e","s","t","r","i","c","t","e","d">>})
            /\ MissingOrEmpty(LoadedRecord, <<"a","c","c","e","s","s","_","c","o","n","d","i","t","i","o","n","s">>))
               => (~ret.is_valid /\ Listed1(ret, <<"a","c","c","e","s","s","_","c","o","n","d","i","t","i","o","n","s"," ","r","e","q","u","i","r","e","d"," ","f","o","r"," ","r","e","s","t","r","i","c","t","e","d"," ","a","c","c","e","s","s">>))
        /\ ret.is_valid <=> (ret.issues = <<>>)

(***************************************************************************)
(* Properties of the quality scorer (specification SpecScore)              *)
(***************************************************************************)
Scored(i) == pc = "scorer" /\ i \in 1..Len(returned)

\* the call returned metrics
GaveMetrics(i) == returned[i].raised = <<>>

\* C18: the Validator and the Quality Scorer never throw: validate_file and
\* calculate_comprehensive_metrics return a descriptive result, also for a
\* creator or community that is no mapping and for a title or date that is
\* no string.
C18_ScorerNeverThrows ==
    \A i \in 1..Len(returned) : Scored(i) => GaveMetrics(i)

\* the record scored second is the one scored first with the critical
\* field `field` added
FilledIn(first, second, field) ==
    /\ field \notin DOMAIN first.value
    /\ field \in DOMAIN second.value
    /\ second.value[field].type # "NoneType"
    /\ Without(second.value, field) = first.value

\* C19: for two records that differ only in that one critical field (title,
\* creators, publication_date, description) is missing in the first and
\* present in the second, the overall_score of the second is greater than
\* or equal to that of the first.
C19_Monotone ==
    \A i, j \in 1..Len(returned) :
        (/\ Scored(i) /\ Scored(j) /\ GaveMetrics(i) /\ GaveMetrics(j)
         /\ \E f \in 1..Len(critical_fields) : FilledIn(frame[i], frame[j], critical_fields[f]))
        => returned[j].overall_score >= returned[i].overall_score

\* a record without creators and the same record with sixteen creators
\* that have no name have both been scored
C19_Witness ==
    /\ Scored(2) /\ GaveMetrics(1) /\ GaveMetrics(2)
    /\ FilledIn(frame[1], frame[2], <<"c","r","e","a","t","o","r","s">>)
    /\ Len(frame[2].value[<<"c","r","e","a","t","o","r","s">>].value) = 16
    /\ returned[2].data_quality.creator_quality.score = 0
    /\ returned[2].overall_score > returned[1].overall_score

InRange(score) == score >= 0 /\ score <= 1000

\* C20: every category score that enters the overall score (the
\* data-preservation percentage, the weighted field coverage, the overall
\* data quality, the overall transformation effectiveness with its
\* mapping-completeness part, the overall compliance) and the overall score
\* itself lie in [0, 100].
C20_ScoresInRange ==
    \A i \in 1..Len(returned) :
        (Scored(i) /\ GaveMetrics(i)) =>
            /\ InRange(returned[i].data_preservation.content_preservation_ratio)
            /\ InRange(returned[i].field_coverage.weighted_coverage_score)
            /\ InRange(returned[i].data_quality.overall_quality_score)
            /\ InRange(returned[i].transformation_effectiveness.mapping_completeness)
            /\ InRange(returned[i].transformation_effectiveness.overall_effectiveness_score)
            /\ InRange(returned[i].compliance.overall_compliance_score)
            /\ InRange(returned[i].overall_score)

\* the scores that are bounded whatever the FGDC content is
C20_BoundedScores ==
    \A i \in 1..Len(returned) :
        (Scored(i) /\ GaveMetrics(i)) =>
            /\ InRange(returned[i].field_coverage.weighted_coverage_score)
            /\ InRange(returned[i].data_quality.overall_quality_score)
            /\ InRange(returned[i].compliance.overall_compliance_score)
            /\ returned[i].data_preservation.content_preservation_ratio >= 0
            /\ returned[i].transformation_effectiveness.overall_effectiveness_score >= 0
            /\ returned[i].overall_score >= 0


(***************************************************************************)
(* merge_related_identifiers                                               *)
(***************************************************************************)
\* related_identifiers before and after the k-th call
BeforeMerge(k) == IF k = 1 THEN root ELSE frame[k - 1]

AfterMerge(k) == frame[k]

HasPair(entries, pair) == \E i \in 1..Len(entries) : PairOf(entries[i]) = pair

\* the positions of an incoming list whose entry is to be appended: its
\* pair is not among the entries before and not earlier in the list
NewPositions(before, incoming) ==
    {i \in 1..Len(incoming) :
        /\ ~HasPair(before, PairOf(incoming[i]))
        /\ \A j \in 1..(i - 1) : PairOf(incoming[j]) # PairOf(incoming[i])}

\* the entries of a list at a set of positions, in the list's order
RECURSIVE AtPositions(_, _, _)
AtPositions(entries, positions, i) ==
    IF i > Len(entries) THEN <<>>
    ELSE (IF i \in positions THEN <<entries[i]>> ELSE <<>>) \o AtPositions(entries, positions, i + 1)

MergedAsClaimed(before, incoming, after) ==
    after = before \o AtPositions(incoming, NewPositions(before, incoming), 1)

\* C21: every call of merge_related_identifiers keeps the entries that
\* were there, in their order, and appends exactly the incoming entries
\* whose (identifier, relation) pair is new, each pair once; no pair that a
\* call appended occurs twice in the list; and a call with the list of the
\* call before it leaves related_identifiers as it was.
C21_MergeWithoutDuplicates ==
    pc = "merge" =>
        /\ \A k \in 1..Len(frame) : MergedAsClaimed(BeforeMerge(k), returned[k], AfterMerge(k))
        /\ \A i \in (Len(root) + 1)..Len(ExistingOf(metadata)) :
               \A j \in 1..Len(ExistingOf(metadata)) :
                   PairOf(ExistingOf(metadata)[j]) = PairOf(ExistingOf(metadata)[i])
                       => j = i
        /\ \A k \in 2..Len(frame) : returned[k] = returned[k - 1] => frame[k] = frame[k - 1]

\* a list with a pair that is there and a pair that is new, twice, was
\* merged two times into a mapping that held an entry
C21_Witness ==
    /\ pc = "merge"
    /\ Len(frame) = 2
    /\ root = <<MergeEntries[1]>>
    /\ returned[1] = <<MergeEntries[2], MergeEntries[3]>>
    /\ returned[2] = returned[1]
    /\ frame[1] = <<MergeEntries[1], MergeEntries[3]>>
    /\ frame[2] = frame[1]

(***************************************************************************)
(* Clones of a DTO                                                         *)
(***************************************************************************)
IsClone(i) == returned[i].parent > 0

EventsOf(trail, stage) == IF stage \in DOMAIN trail THEN trail[stage] ELSE <<>>

\* C22: copy, with_attachments, with_bibliographic_links and
\* with_audit_event return a DTO with dicts of its own, and after any
\* sequence of such calls every DTO holds the zenodo_metadata, audit_trail,
\* attachments and bibliographic_links it held when it was returned; the
\* DTO with_audit_event returns holds, for the stage, the events of the
\* original followed by the new event, and the original's events for every
\* other stage.
C22_ClonesLeaveOriginal ==
    pc = "clone" =>
        \A i \in 1..Len(returned) :
            /\ DeepOnHeap(frame, returned[i].dto) = returned[i].born
            /\ IsClone(i) =>
                   /\ returned[i].dto.zenodo_metadata # returned[returned[i].parent].dto.zenodo_metadata
                   /\ returned[i].dto.audit_trail # returned[returned[i].parent].dto.audit_trail
            /\ returned[i].op = "with_audit_event" =>
                   /\ DOMAIN returned[i].born.audit_trail
                          = DOMAIN returned[returned[i].parent].born.audit_trail \cup {returned[i].stage}
                   /\ \A stage \in DOMAIN returned[i].born.audit_trail :
                          returned[i].born.audit_trail[stage]
                              = IF stage = returned[i].stage
                                THEN Append(EventsOf(returned[returned[i].parent].born.audit_trail, stage),
                                            returned[i].event)
                                ELSE returned[returned[i].parent].born.audit_trail[stage]

\* two audit events of one stage were added one after the other to a DTO
\* whose trail held an event of that stage, and the first DTO still holds
\* that one event
C22_Witness ==
    /\ pc = "clone"
    /\ Len(returned) = 3
    /\ returned[2].op = "with_audit_event" /\ returned[2].parent = 1
    /\ returned[3].op = "with_audit_event" /\ returned[3].parent = 2
    /\ returned[2].stage = "bibliographic_linkage" /\ returned[3].stage = "bibliographic_linkage"
    /\ Len(EventsOf(DeepOnHeap(frame, returned[1].dto).audit_trail, "bibliographic_linkage")) = 1
    /\ Len(EventsOf(DeepOnHeap(frame, returned[2].dto).audit_trail, "bibliographic_linkage")) = 2
    /\ Len(EventsOf(DeepOnHeap(frame, returned[3].dto).audit_trail, "bibliographic_linkage")) = 3

(***************************************************************************)
(* matching engine                                                         *)
(***************************************************************************)
NonIncreasing(results) ==
    \A i \in 1..(Len(results) - 1) : results[i].score >= results[i + 1].score

\* how often an item occurs in a list
Occurrences(items, item) == Cardinality({i \in 1..Len(items) : items[i] = item})

CandidatesOf(results) == [i \in 1..Len(results) |-> results[i].candidate]

\* C23: score_candidates returns one result per candidate, ordered by
\* non-increasing score; filter_confident returns exactly the given results
\* whose score is at least the acceptance threshold, ordered by
\* non-increasing score, and never more results than it was given.
C23_ScoredAndFiltered ==
    \A k \in 1..Len(returned) :
        /\ returned[k].op = "score_candidates" =>
               /\ Len(returned[k].out) = Len(returned[k].given)
               /\ \A c \in 1..Len(CandidatePool) :
                      Occurrences(CandidatesOf(returned[k].out), CandidatePool[c])
                          = Occurrences(returned[k].given, CandidatePool[c])
               /\ NonIncreasing(returned[k].out)
        /\ returned[k].op = "filter_confident" =>
               /\ \A i \in 1..Len(returned[k].out) :
                      returned[k].out[i].score >= arg.acceptance_threshold
               /\ \A i \in 1..Len(returned[k].given) :
                      Occurrences(returned[k].out, returned[k].given[i])
                          = IF returned[k].given[i].score >= arg.acceptance_threshold
                            THEN Occurrences(returned[k].given, returned[k].given[i])
                            ELSE 0
               /\ \A i \in 1..Len(returned[k].out) :
                      Occurrences(returned[k].given, returned[k].out[i]) > 0
               /\ NonIncreasing(returned[k].out)
               /\ Len(returned[k].out) <= Len(returned[k].given)

\* three candidates were scored and the results given to filter_confident
\* lowest first; the one below the threshold is left out, the one at the
\* threshold is kept, behind the higher one
C23_Witness ==
    /\ pc = "filtered"
    /\ Len(returned) = 2
    /\ returned[1].given = <<CandidatePool[5], CandidatePool[4], CandidatePool[2]>>
    /\ CandidatesOf(returned[1].out) = <<CandidatePool[2], CandidatePool[4], CandidatePool[5]>>
    /\ returned[2].given = ReverseOf(returned[1].out)
    /\ arg.acceptance_threshold = 6000
    /\ Len(returned[2].out) = 2
    /\ returned[2].out[1].score = 6250
    /\ returned[2].out[2].score = 6000

\* the names of one origin text: the text itself, or its parts when it is
\* split on the conjunction "and"
NamesOfOrigin(origin_text) ==
    IF origin_text = <<>> THEN <<>>
    ELSE IF Contains(Lower(origin_text), <<" ","a","n","d"," ">>)
    THEN [k \in 1..Len(SplitOnAnd(origin_text)) |-> Strip(SplitOnAnd(origin_text)[k])]
    ELSE <<origin_text>>

RECURSIVE NamesOfOrigins(_)
NamesOfOrigins(origins) ==
    IF origins = <<>> THEN <<>>
    ELSE NamesOfOrigin(Strip(origins[1])) \o NamesOfOrigins(Tail(origins))

\* "Family, Given" of a name of two or more words, the last word being the family
LastWordFirst(words) ==
    words[Len(words)] \o <<","," ">> \o JoinWords(SubSeq(words, 1, Len(words) - 1))

\* the creator the rule gives for one name; a name written "Family, Given"
\* already is in the first of the two shapes
CreatorByRule(name) ==
    IF _is_organization(name) THEN [name |-> name, type |-> "Organization"]
    ELSE IF Contains(name, <<",">>) THEN [name |-> JoinWords(Words(name))]
    ELSE IF Len(Words(name)) >= 2 THEN [name |-> LastWordFirst(Words(name))]
    ELSE [name |-> name]

\* names that fit neither shape and are no organization
KeptAsIs(names) ==
    SelectSeq(names, LAMBDA n : ~_is_organization(n) /\ ~Contains(n, <<",">>) /\ Len(Words(n)) < 2)

\* C25: every creator name the extractor emits, a whole origin text or a part
\* of a text split on "and", is emitted verbatim with type Organization when
\* it holds an organization keyword, as "Family, Given" with the last word as
\* family when another name has two or more words, and as it is with a
\* warning otherwise
C25_OrganizationsDetected ==
    pc = "creators_done" =>
        /\ ret = [k \in 1..Len(NamesOfOrigins(root.origin)) |-> CreatorByRule(NamesOfOrigins(root.origin)[k])]
        /\ [k \in 1..Len(warnings) |-> warnings[k].value_found] = KeptAsIs(NamesOfOrigins(root.origin))

\* C25 on trees none of whose origin texts is split on "and"
C25_WholeOriginTexts ==
    (pc = "creators_done" /\ \A k \in 1..Len(root.origin) : ~Contains(Lower(root.origin[k]), <<" ","a","n","d"," ">>)) =>
        /\ ret = [k \in 1..Len(NamesOfOrigins(root.origin)) |-> CreatorByRule(NamesOfOrigins(root.origin)[k])]
        /\ [k \in 1..Len(warnings) |-> warnings[k].value_found] = KeptAsIs(NamesOfOrigins(root.origin))

\* the organization of two parts is rearranged as a person and a lone word
C25_SplitOrganization ==
    /\ pc = "creators_done"
    /\ root.origin = <<<<"D","e","p","a","r","t","m","e","n","t"," ","o","f"," ","F","i","s","h","e","r","i","e","s"," ","a","n","d"," ","O","c","e","a","n","s">>>>
    /\ ret = <<[name |-> <<"F","i","s","h","e","r","i","e","s",","," ","D","e","p","a","r","t","m","e","n","t"," ","o","f">>], [name |-> <<"O","c","e","a","n","s">>]>>

\* the record of _build_zenodo_metadata is complete
RelatedBuilt == pc \in {"built", "validated"}

\* C26: every entry of related_identifiers of a constructed record has an
\* identifier that is a URL with a scheme and a host; source text that is no
\* such URL produces no entry, whichever step handles it
C26_OnlyValidUrls ==
    RelatedBuilt =>
        \A k \in 1..Len(metadata.related_identifiers) :
            HasScheme(metadata.related_identifiers[k].identifier)
            /\ HasNetloc(metadata.related_identifiers[k].identifier)

\* C26 for the entries that come from onlink elements
C26_OnlinksFiltered ==
    RelatedBuilt =>
        \A k \in 1..Len(metadata.related_identifiers) :
            metadata.related_identifiers[k].relation = <<"i","s","A","l","t","e","r","n","a","t","e","I","d","e","n","t","i","f","i","e","r">> =>
                (HasScheme(metadata.related_identifiers[k].identifier)
                 /\ HasNetloc(metadata.related_identifiers[k].identifier))

\* a browse graphic file name and an empty larger-work text are entries
C26_TextAsIdentifier ==
    /\ pc = "built"
    /\ root.lworkcit = <<" "," ">>
    /\ root.browsed = <<<<"m","a","p",".","p","n","g">>>>
    /\ \E k \in 1..Len(metadata.related_identifiers) :
           metadata.related_identifiers[k] = [identifier |-> <<>>, relation |-> <<"i","s","P","a","r","t","O","f">>]
    /\ \E k \in 1..Len(metadata.related_identifiers) :
           metadata.related_identifiers[k] = [identifier |-> <<"m","a","p",".","p","n","g">>, relation |-> <<"i","s","D","o","c","u","m","e","n","t","e","d","B","y">>]

\* C29: every related identifier the extractor emits has a relation of the
\* validator's relation list and every contributor a type of the validator's
\* contributor types, so that the validator raises no issue on the two lists
C29_NoEnumerationIssue ==
    pc = "validated" =>
        /\ \A k \in 1..Len(metadata.related_identifiers) :
               metadata.related_identifiers[k].relation \in valid_relations
        /\ \A k \in 1..Len(metadata.contributors) : metadata.contributors[k].type \in valid_types
        /\ ret.issues = <<>>

\* C29 for the contributors, and for the relations other than isRelatedTo
C29_OtherEnumerations ==
    pc = "validated" =>
        /\ \A k \in 1..Len(metadata.related_identifiers) :
               metadata.related_identifiers[k].relation \in valid_relations \cup {<<"i","s","R","e","l","a","t","e","d","T","o">>}
        /\ \A k \in 1..Len(metadata.contributors) : metadata.contributors[k].type \in valid_types
        /\ \A k \in 1..Len(ret.issues) : Contains(ret.issues[k], <<"i","n","v","a","l","i","d"," ","r","e","l","a","t","i","o","n",":"," ","i","s","R","e","l","a","t","e","d","T","o">>)

\* a cross reference with a URL in it gets a relation the validator rejects
C29_InvalidRelation ==
    /\ pc = "validated"
    /\ root.crossref = <<<<"S","e","e"," ","h","t","t","p",":","/","/","p","i","c","e","s",".","i","n","t","/","r","e","p","o","r","t",".">>>>
    /\ root.onlink = <<>>
    /\ metadata.related_identifiers[1] = [identifier |-> <<"h","t","t","p",":","/","/","p","i","c","e","s",".","i","n","t","/","r","e","p","o","r","t",".">>, relation |-> <<"i","s","R","e","l","a","t","e","d","T","o">>]
    /\ ret.issues = <<<<"R","e","l","a","t","e","d"," ","i","d","e","n","t","i","f","i","e","r"," ","1"," ","h","a","s"," ","i","n","v","a","l","i","d"," ","r","e","l","a","t","i","o","n",":"," ","i","s","R","e","l","a","t","e","d","T","o">>>>

\* the rules of the date normalizer in the documented order: which of them
\* match a token
IsVagueToken(t) == t = <<>> \/ Lower(t) \in VagueDates

IsStatusToken(t) == Lower(t) \in StatusDates

IsRangeToken(t) ==
    \/ MatchDigitRange(t, 4) \/ MatchDigitRange(t, 8) \/ MatchDigitRange(t, 6)
    \/ (Contains(Lower(t), <<"t","h","r","u">>) /\ SearchDigits(t, 2) # 0)
    \/ Contains(t, <<" ","-"," ">>) \/ Contains(t, <<" ","t","o"," ">>)

IsYearListToken(t) == Contains(t, <<",">>) /\ SearchDigits(t, 4) # 0

IsPresentToken(t) == EndsWith(t, <<"-","P","r","e","s","e","n","t">>) /\ SearchYearPresent(t) # 0

IsTwoDigitPairToken(t) == MatchDigitRange(t, 2)

IsPlainToken(t) == Len(t) \in {4, 6, 8}

\* the number of the first documented rule that matches the token
FirstDocumentedRule(t) ==
    CASE IsVagueToken(t) -> 1
      [] IsStatusToken(t) -> 2
      [] IsRangeToken(t) -> 3
      [] IsYearListToken(t) -> 4
      [] IsPresentToken(t) -> 5
      [] IsTwoDigitPairToken(t) -> 6
      [] IsPlainToken(t) -> 7
      [] OTHER -> 8

\* the documented rule of the warning a call logged
RuleOfWarning(issue_type) ==
    CASE issue_type = "vague_date" -> 1
      [] issue_type = "status_date" -> 2
      [] issue_type \in {"date_range", "month_range", "complex_date_range"} -> 3
      [] issue_type = "multiple_years" -> 4
      [] issue_type = "present_range" -> 5
      [] issue_type = "two_digit_year" -> 6
      [] OTHER -> 0

\* the rule that decided the result of the call: the one that logged the
\* warning; without a warning the range rule that failed to find a year, or
\* else the plain rule on a token of 4, 6 or 8 characters and the parser on
\* any other
RuleApplied ==
    IF warnings # <<>> THEN RuleOfWarning(warnings[Len(warnings)].issue_type)
    ELSE IF \E k \in 1..Len(errors) : errors[k].issue_type = "invalid_date_range" THEN 3
    ELSE IF IsPlainToken(Token) THEN 7
    ELSE 8

\* C27: _normalize_date applies its rules in the documented order (vague,
\* unpublished/planned, range patterns, year lists, YYYY-Present, two-digit
\* pairs, plain 4/6/8 tokens, parser); the result of a token that matches
\* several rules is the one of the earliest of them
C27_DocumentedOrder ==
    (pc = "date_done" /\ ~MatchSpaceYears(Token)) => RuleApplied = FirstDocumentedRule(Token)

\* C27 for the tokens that match neither the year-list nor the YYYY-Present rule
C27_OrderOfOtherRules ==
    (pc = "date_done" /\ ~MatchSpaceYears(Token) /\ ~IsYearListToken(Token) /\ ~IsPresentToken(Token))
        => RuleApplied = FirstDocumentedRule(Token)

\* a "thru" range with a comma in it gets the year of the year-list rule
C27_YearListBeforeRange ==
    /\ pc = "date_done"
    /\ Token = <<"1","9","9","7"," ","t","h","r","u"," ","2","0","0","2",","," ","2","0","0","4">>
    /\ ret = <<"1","9","9","7","-","0","1","-","0","1">>
    /\ warnings[1].issue_type = "multiple_years"

\* the errors that name a missing required field, of a construction that was aborted
MissingFieldErrors ==
    IF pc = "done" /\ ret = None
    THEN SelectSeq(errors, LAMBDA e : e.issue_type = "missing_required_field")
    ELSE <<>>

\* C28: each missing_required_field error of an aborted construction carries
\* the field path, the value found, the expected shape and a non-empty
\* remediation hint in its suggestion field, with severity error
C28_AbortDiagnostics ==
    \A k \in 1..Len(MissingFieldErrors) :
        /\ MissingFieldErrors[k].severity = "error"
        /\ MissingFieldErrors[k].field # ""
        /\ "value_found" \in DOMAIN MissingFieldErrors[k]
        /\ MissingFieldErrors[k].expected # <<>>
        /\ MissingFieldErrors[k].suggestion # <<>>

\* C28 with the remediation hint looked for in the context field
C28_HintInContext ==
    \A k \in 1..Len(MissingFieldErrors) :
        /\ MissingFieldErrors[k].severity = "error"
        /\ MissingFieldErrors[k].field # ""
        /\ MissingFieldErrors[k].value_found = None
        /\ MissingFieldErrors[k].expected # <<>>
        /\ MissingFieldErrors[k].context # <<>>
        /\ MissingFieldErrors[k].suggestion = <<>>

\* the error of a tree without title has its hint in context and no suggestion
C28_EmptySuggestion ==
    /\ pc = "done"
    /\ ret = None
    /\ root.title = NoElem
    /\ Len(errors) = 1
    /\ errors[1].field = "idinfo.citation.citeinfo.title"
    /\ errors[1].context = <<"A","d","d"," ","t","i","t","l","e"," ","e","l","e","m","e","n","t"," ","t","o"," ","c","i","t","a","t","i","o","n"," ","s","e","c","t","i","o","n">>
    /\ errors[1].suggestion = <<>>

\* the HTTP requests sent in the window of the given span that ends with
\* the k-th request sent
SentInWindow(k, span) ==
    Cardinality({i \in 1..k : returned[k] - returned[i] < span})

\* the last requests sent: a call sends at most max_retries + 2
LatestSent == {k \in 1..Len(returned) : k > Len(returned) - (max_retries + 2)}

\* C30: no more than requests_per_minute HTTP requests are sent in any
\* minute and no more than requests_per_hour in any hour; every HTTP
\* attempt, retries and file uploads included, is recorded by the rate
\* limiter before it is sent; _make_request makes at most max_retries + 1
\* attempts
C30_RateLimited ==
    /\ \A k \in LatestSent : SentInWindow(k, Minute) <= requests_per_minute
    /\ \A k \in LatestSent : SentInWindow(k, Hour) <= requests_per_hour
    /\ errors = <<>>
    /\ arg > 0 => ret.attempts <= max_retries + 1

\* C30 for the attempts of _make_request and for the requests that are recorded
C30_AttemptsAndRecorded ==
    /\ arg > 0 => ret.attempts \in 1..(max_retries + 1)
    /\ Len(frame.request_times) <= requests_per_minute
    /\ \A i \in 2..Len(frame.request_times) :
           frame.request_times[i] - frame.request_times[i - 1] >= min_request_interval
    /\ Len(returned) = Len(frame.hourly_request_times) + Len(errors)

\* three retries after 429 answers are sent without being recorded
C30_UnrecordedRetries ==
    /\ arg = 1
    /\ ret = [outcome |-> "RateLimitError", attempts |-> 4]
    /\ Len(errors) = 3
    /\ Len(frame.hourly_request_times) = 2

\* more than requests_per_minute requests within one minute
C30_MinuteExceeded ==
    \E k \in LatestSent : SentInWindow(k, Minute) > requests_per_minute

\* the diagnostics of worker w, alone and in order
AloneDiagnostics(w) == DiagnosticsOf(w)

\* the entries of a list of the logger that belong to a file
ForFile(list, path) == SelectSeq(list, LAMBDA d : d.file = path)

\* the diagnostics worker w has handed to append so far
Handed(w) ==
    SubSeq(AloneDiagnostics(w), 1,
           frame[w].logged + (IF frame[w].pc \in {"load_count", "store_count", "emit"} THEN 1 ELSE 0))

AllDone == \A w \in 1..MaxWorkers : frame[w].pc = "done"

\* the diagnostics of worker w are in the logger object at `address`
KeptIn(address, w) ==
    /\ ForFile(returned[address].warnings, RecordPath(w)) = WarningsOf(AloneDiagnostics(w))
    /\ ForFile(returned[address].errors, RecordPath(w)) = ErrorsOf(AloneDiagnostics(w))

\* C24: when parallel workers of one process have transformed their
\* records, each worker's record equals the one its tree gives alone, and
\* the logger of the process holds every diagnostic of every record, the
\* diagnostics of one record in the order of its extraction.
C24_ParallelAsAlone ==
    AllDone =>
        \A w \in 1..MaxWorkers :
            /\ frame[w].result = _build_zenodo_metadata(root[w], now_year).ret
            /\ ret # 0
            /\ KeptIn(ret, w)

\* C24, what holds: a record never depends on the other workers; the logger
\* object a worker holds keeps that worker's diagnostics in order; and when
\* initialize_logger ran before the workers started there is one logger
\* object, whose lists and log file hold the diagnostics of every record in
\* the order of its extraction.
C24_SafeOnceInitialized ==
    \A w \in 1..MaxWorkers :
        /\ frame[w].pc = "done" => frame[w].result = Built(w).ret
        /\ frame[w].logger # 0 =>
            /\ ForFile(returned[frame[w].logger].warnings, RecordPath(w)) = WarningsOf(Handed(w))
            /\ ForFile(returned[frame[w].logger].errors, RecordPath(w)) = ErrorsOf(Handed(w))
        /\ arg = 1 =>
            /\ ret = 1 /\ Len(returned) = 1
            /\ ForFile(returned[1].lines, RecordPath(w)) = SubSeq(AloneDiagnostics(w), 1, frame[w].logged)

\* two workers found `logger is None`: the diagnostics of one of them are in
\* a logger object the module no longer refers to
C24_LostDiagnostics ==
    /\ AllDone
    /\ \E w \in 1..MaxWorkers :
        /\ frame[w].logger # ret
        /\ AloneDiagnostics(w) # <<>>
        /\ ~KeptIn(ret, w)

\* the sum of the counts of a Counter
RECURSIVE CountSum(_)
CountSum(issues_by_type) ==
    IF issues_by_type = <<>> THEN 0 ELSE Head(issues_by_type).count + CountSum(Tail(issues_by_type))

\* with one logger object and every diagnostic kept, issues_by_type counts
\* fewer issues than were logged
C24_LostCount ==
    /\ AllDone
    /\ arg = 1
    /\ CountSum(returned[1].issues_by_type) < Len(returned[1].warnings) + Len(returned[1].errors)

\* a worker whose record was aborted by an error after a warning has returned None
C24_WarningThenError ==
    \E w \in 1..MaxWorkers :
        /\ frame[w].pc = "done"
        /\ arg = 1
        /\ Len(ErrorsOf(AloneDiagnostics(w))) = 1
        /\ Len(WarningsOf(AloneDiagnostics(w))) = 1

====
